---- MODULE Spec2Model ----
(***************************************************************************)
(* A model of the DynamoDB demo crate: the retry helper of src/utils.rs,   *)
(* the paging loops and request builders of src/dynamodb/client.rs and the *)
(* table lifecycle calls.  The store itself (the SDK client) is the        *)
(* environment: its responses are chosen nondeterministically.             *)
(***************************************************************************)
EXTENDS Integers, Sequences, FiniteSets, TLC

(***************************************************************************)
(* Bounds of the model.                                                    *)
(***************************************************************************)
MaxRetries == 4
MaxDelay == 2
MaxItems == 3
MaxCalls == 2
MaxWrites == 3
MaxSets == 3
MaxLines == 3
MaxRequests == 2
ListTablesPageSize == 2

VARIABLES
    \* ---- retry_with_backoff (src/utils.rs) ----
    max_retries,     \* argument max_retries: usize
    initial_delay,   \* argument initial_delay: Duration (in whole time units)
    retries,         \* let mut retries
    fib,             \* let mut fib: (Duration, Duration)
    rpc,             \* position in the async fn: "loop", "await_op", "sleeping", "done"
    result,          \* the Result<T, E> returned, once rpc = "done"
    trace,           \* everything the executor did, in order (observation)
    \* ---- the store and the paging loops (src/dynamodb/client.rs, command_line.rs) ----
    table,                        \* the store: the table's items in scan order
    fn,                           \* the paging function running
    filter_expression,            \* Option<String>
    projection_expression,        \* Option<String>
    expression_attribute_names,   \* Option<HashMap<String, String>>
    expression_attribute_values,  \* Option<HashMap<String, AttributeValue>>
    limit,                        \* Option<i32>
    items,                        \* let mut items = Vec::new()
    last_evaluated_key,           \* let mut last_evaluated_key
    exclusive_start_key,          \* let mut exclusive_start_key (CLI loop)
    page_num,                     \* let mut page_num (CLI loop)
    spc,                          \* position in the paging function
    sresult,                      \* what the paging function returned
    requests,                     \* the scan requests sent, in order (observation)
    responses,                    \* the store's answers, in order (observation)
    returned,                     \* what each scan_paginated call returned (observation)
    printed,                      \* the pages print_items printed (observation)
    answered,                     \* the answers read at "Continue to next page?" (observation)
    \* ---- query_flexible / query_simple (src/dynamodb/client.rs) ----
    qfn,          \* the query function called
    qargs,        \* the arguments of query_simple
    qparams,      \* the QueryFlexibleParams given to query_flexible
    qpc,          \* position in the call: "call", "await", "done"
    qresult,      \* what the call returned
    qrequests,    \* the query requests sent, in order (observation)
    qresponses,   \* the store's answers, in order (observation)
    \* ---- create_table_if_not_exists (src/dynamodb/client.rs) ----
    tables,       \* the store: the account's tables, name -> description
    tdesc,        \* the Table descriptor the callers pass
    cpc,          \* per caller: "idle", "await_list", "await_create"
    cresults,     \* per caller: what each finished call returned and left behind
    treqs,        \* the table requests sent to the store, in order (observation)
    \* ---- put_item / get_item / update_item / delete_item (src/dynamodb/client.rs) ----
    stored,       \* the store: the items of the table, key -> attributes
    ifn,          \* the item function called last
    iargs,        \* its arguments
    ipc,          \* position in the call: "idle", "await"
    iresult,      \* what the last finished call returned
    ireqs,        \* the requests the call sent (observation)
    writes,       \* the writes the store applied, in order (observation)
    \* ---- Item, Schema, Table (src/dynamodb/item.rs, schema.rs, table.rs) ----
    attributes,   \* an Item under construction: its attributes
    sets,         \* the set_string / set_number calls made on it (observation)
    fields,       \* a Schema under construction: its fields
    added,        \* the add_field calls made on it (observation)
    tnew,         \* the arguments of Table::new and the Table it returned
    \* ---- run (src/command_line.rs) ----
    lpc,          \* position in run: "prompt", "match", "handler", "done"
    command,      \* let command = prompt(..)?
    nlines,       \* input lines read so far
    stdout,       \* what run itself printed
    handler,      \* the command handler dispatched last
    ndispatched,  \* number of handlers dispatched
    srequests,    \* number of store requests the handlers made
    run_result,    \* what run returned
    \* ---- the command handlers (src/command_line.rs) ----
    hfn,          \* the handler called
    htable,       \* the Table descriptor it is given
    hpc,          \* position in the handler; "panic" when it unwound
    htodo,        \* the schema fields the loop has still to visit
    hfield,       \* the field whose new value is being asked
    hitem,        \* the Item (or values map) built so far
    hkey,         \* the key Item create_key_item built
    hasked,       \* the "Update ..? (y/n)" prompts shown and their answers (observation)
    htype,        \* the value type last typed in get_expression_attribute_values
    hinfo,        \* the describe_table output print_info holds
    hreqs,        \* the calls made on the store client, in order (observation)
    hresult       \* what the handler returned

retryVars == <<max_retries, initial_delay, retries, fib, rpc, result, trace>>

scanArgs == <<table, fn, filter_expression, projection_expression,
              expression_attribute_names, expression_attribute_values, limit>>

scanVars == <<scanArgs, items, last_evaluated_key, exclusive_start_key, page_num,
              spc, sresult, requests, responses, returned, printed, answered>>

queryVars == <<qfn, qargs, qparams, qpc, qresult, qrequests, qresponses>>

tableVars == <<tables, tdesc, cpc, cresults, treqs>>

crudVars == <<stored, ifn, iargs, ipc, iresult, ireqs, writes>>

itemVars == <<attributes, sets, fields, added, tnew>>

cliVars == <<lpc, command, nlines, stdout, handler, ndispatched, srequests, run_result>>

handlerVars == <<hfn, htable, hpc, htodo, hfield, hitem, hkey, hasked, htype, hinfo,
                 hreqs, hresult>>

vars == <<retryVars, scanVars, queryVars, tableVars, crudVars, itemVars, cliVars,
          handlerVars>>

\* What each part of the program leaves alone.
notRetry == <<scanVars, queryVars, tableVars, crudVars, itemVars, cliVars, handlerVars>>
notScan == <<retryVars, queryVars, tableVars, crudVars, itemVars, cliVars, handlerVars>>
notQuery == <<retryVars, scanVars, tableVars, crudVars, itemVars, cliVars, handlerVars>>
notTable == <<retryVars, scanVars, queryVars, crudVars, itemVars, cliVars, handlerVars>>
notCrud == <<retryVars, scanVars, queryVars, tableVars, itemVars, cliVars, handlerVars>>
notItem == <<retryVars, scanVars, queryVars, tableVars, crudVars, cliVars, handlerVars>>
notCli == <<retryVars, scanVars, queryVars, tableVars, crudVars, itemVars, handlerVars>>
notHandler == <<retryVars, scanVars, queryVars, tableVars, crudVars, itemVars, cliVars>>

\* Option<T>: None is the empty sequence, Some(x) the one-element sequence.
None == <<>>
Some(x) == <<x>>

(***************************************************************************)
(* Values.  Durations are natural numbers of time units; the sums reached  *)
(* within MaxRetries and MaxDelay stay far below Duration's u64 seconds.   *)
(***************************************************************************)
Values == {"v1", "v2"}
Errors == {"e1", "e2"}
NoResult == [ok |-> FALSE, val |-> "none"]

RECURSIVE SumSeq(_)
SumSeq(s) == IF s = <<>> THEN 0 ELSE Head(s) + SumSeq(Tail(s))

\* One entry of the observation trace; unused fields are "" and 0.
Event(kind, val, dur, attempt, max) ==
    [kind |-> kind, val |-> val, dur |-> dur, attempt |-> attempt, max |-> max]

OfKind(kind) == SelectSeq(trace, LAMBDA ev : ev.kind = kind)
Outcomes == SelectSeq(trace, LAMBDA ev : ev.kind \in {"ok", "err"})
Calls == Len(OfKind("call"))
Logs == OfKind("log")
Slept == [i \in 1..Len(OfKind("sleep")) |-> OfKind("sleep")[i].dur]

\* The state of a part of the program that is not running.
RetryIdle ==
    /\ max_retries = 0 /\ initial_delay = 0 /\ retries = 0 /\ fib = <<0, 0>>
    /\ rpc = "idle" /\ result = NoResult /\ trace = <<>>

ScanIdle ==
    /\ fn = "idle"
    /\ filter_expression = None /\ projection_expression = None
    /\ expression_attribute_names = None /\ expression_attribute_values = None
    /\ limit = None /\ items = <<>> /\ last_evaluated_key = None
    /\ exclusive_start_key = None /\ page_num = 0 /\ spc = "idle"
    /\ sresult = NoResult /\ requests = <<>> /\ responses = <<>>
    /\ returned = <<>> /\ printed = <<>> /\ answered = <<>>

QueryIdle ==
    /\ qfn = "idle" /\ qargs = None /\ qparams = None /\ qpc = "idle"
    /\ qresult = NoResult /\ qrequests = <<>> /\ qresponses = <<>>

TableIdle ==
    /\ tables = <<>> /\ tdesc = None /\ cpc = <<>> /\ cresults = <<>>
    /\ treqs = <<>>

CrudIdle ==
    /\ stored = <<>> /\ ifn = "idle" /\ iargs = None /\ ipc = "idle"
    /\ iresult = NoResult /\ ireqs = <<>> /\ writes = <<>>

ItemIdle ==
    /\ attributes = <<>> /\ sets = <<>> /\ fields = <<>> /\ added = <<>> /\ tnew = None

CliIdle ==
    /\ lpc = "idle" /\ command = "" /\ nlines = 0 /\ stdout = <<>>
    /\ handler = "none" /\ ndispatched = 0 /\ srequests = 0
    /\ run_result = NoResult

HandlerIdle ==
    /\ hfn = "idle" /\ htable = None /\ hpc = "idle" /\ htodo = {}
    /\ hfield = None /\ hitem = <<>> /\ hkey = <<>> /\ hasked = <<>>
    /\ htype = None /\ hinfo = None /\ hreqs = <<>> /\ hresult = NoResult

(***************************************************************************)
(* retry_with_backoff, src/utils.rs:51-82.                                 *)
(***************************************************************************)
\* lines 61-62: let mut retries = 0; let mut fib = (initial_delay, initial_delay)
InitRetry ==
    /\ max_retries \in 0..MaxRetries
    /\ initial_delay \in 0..MaxDelay
    /\ retries = 0
    /\ fib = <<initial_delay, initial_delay>>
    /\ rpc = "loop"
    /\ result = NoResult
    /\ trace = <<>>
    /\ table = <<>>
    /\ ScanIdle
    /\ QueryIdle
    /\ TableIdle
    /\ CrudIdle
    /\ ItemIdle
    /\ CliIdle
    /\ HandlerIdle

\* line 65: operation() -- the producer is invoked and its future awaited
CallOperation ==
    /\ rpc = "loop"
    /\ rpc' = "await_op"
    /\ trace' = Append(trace, Event("call", "", 0, 0, 0))
    /\ UNCHANGED <<max_retries, initial_delay, retries, fib, result>>
    /\ UNCHANGED notRetry

\* Mutant of ArmOk: the success is recorded but the loop is not left.
ArmOkKeepsLooping(v) ==
    /\ rpc = "await_op"
    /\ result' = [ok |-> TRUE, val |-> v]
    /\ rpc' = "loop"
    /\ trace' = Append(trace, Event("ok", v, 0, 0, 0))
    /\ UNCHANGED <<max_retries, initial_delay, retries, fib>>
    /\ UNCHANGED notRetry

\* line 66: Ok(result) => return Ok(result)
ArmOk(v) ==
    /\ rpc = "await_op"
    /\ result' = [ok |-> TRUE, val |-> v]
    /\ rpc' = "done"
    /\ trace' = Append(trace, Event("ok", v, 0, 0, 0))
    /\ UNCHANGED <<max_retries, initial_delay, retries, fib>>
    /\ UNCHANGED notRetry

\* Mutant of RetryGuard: off by one, one retry too many.
RetryGuardInclusive == retries <= max_retries

\* line 67: the guard of the retry arm
RetryGuard == retries < max_retries

\* Mutant of LogEvent: the attempt index is logged 0-based.
LogEventZeroBased(e) == Event("log", e, fib[1], retries, max_retries)

\* lines 68-74: info!("Operation failed: {:?}. Retrying in {:?} (attempt {}/{})")
LogEvent(e) == Event("log", e, fib[1], retries + 1, max_retries)

\* lines 67-75: Err(e) if retries < max_retries => { info!(..); sleep(fib.0) ...
ArmErrRetry(e) ==
    /\ rpc = "await_op"
    /\ RetryGuard
    /\ trace' = trace \o <<Event("err", e, 0, 0, 0), LogEvent(e)>>
    /\ rpc' = "sleeping"
    /\ UNCHANGED <<max_retries, initial_delay, retries, fib, result>>
    /\ UNCHANGED notRetry

\* Mutant of NextFib: plain doubling, the "exponential backoff" of the doc comment.
NextFibDoubling(f) == <<f[2], f[2] + f[2]>>

\* line 77: fib = (fib.1, fib.0 + fib.1)
NextFib(f) == <<f[2], f[1] + f[2]>>

\* Mutant of SleepElapsed: sleeps the second component of the pair.
SleepElapsedSecond ==
    /\ rpc = "sleeping"
    /\ trace' = Append(trace, Event("sleep", "", fib[2], 0, 0))
    /\ retries' = retries + 1
    /\ fib' = NextFib(fib)
    /\ rpc' = "loop"
    /\ UNCHANGED <<max_retries, initial_delay, result>>
    /\ UNCHANGED notRetry

\* lines 75-77: ... sleep(fib.0).await; retries += 1; fib = (fib.1, fib.0 + fib.1)
SleepElapsed ==
    /\ rpc = "sleeping"
    /\ trace' = Append(trace, Event("sleep", "", fib[1], 0, 0))
    /\ retries' = retries + 1
    /\ fib' = NextFib(fib)
    /\ rpc' = "loop"
    /\ UNCHANGED <<max_retries, initial_delay, result>>
    /\ UNCHANGED notRetry

\* line 79: Err(e) => return Err(e)
ArmErrReturn(e) ==
    /\ rpc = "await_op"
    /\ ~RetryGuard
    /\ result' = [ok |-> FALSE, val |-> e]
    /\ rpc' = "done"
    /\ trace' = Append(trace, Event("err", e, 0, 0, 0))
    /\ UNCHANGED <<max_retries, initial_delay, retries, fib>>
    /\ UNCHANGED notRetry

NextRetry ==
    \/ CallOperation
    \/ \E v \in Values : ArmOk(v)
    \/ \E e \in Errors : ArmErrRetry(e)
    \/ SleepElapsed
    \/ \E e \in Errors : ArmErrReturn(e)

SpecRetry == InitRetry /\ [][NextRetry]_vars

(***************************************************************************)
(* Properties of retry_with_backoff.                                       *)
(***************************************************************************)
\* The Fibonacci sequence 1, 1, 2, 3, 5, 8, ... and its partial sums.
RECURSIVE Fib(_)
Fib(i) == IF i <= 2 THEN 1 ELSE Fib(i - 1) + Fib(i - 2)

RECURSIVE FibSum(_)
FibSum(k) == IF k = 0 THEN 0 ELSE Fib(k) + FibSum(k - 1)

Failures == Len(OfKind("err"))
LastOutcome == Outcomes[Len(Outcomes)]

\* C1: an operation that fails k <= N times and then succeeds makes the
\* executor return that success value after a total sleep of the first k
\* terms of d, d, 2d, 3d, 5d, ... (0, d, 2d, 4d for k = 0, 1, 2, 3); an error
\* is returned only after N+1 failures, after a total sleep of the first N terms.
C1_TotalWait ==
    rpc = "done" =>
        /\ result.ok =>
            /\ Failures <= max_retries
            /\ LastOutcome.kind = "ok" /\ result.val = LastOutcome.val
            /\ SumSeq(Slept) = FibSum(Failures) * initial_delay
            /\ Failures <= 3 =>
                 SumSeq(Slept) = <<0, 1, 2, 4>>[Failures + 1] * initial_delay
        /\ ~result.ok =>
            /\ Failures = max_retries + 1
            /\ SumSeq(Slept) = FibSum(max_retries) * initial_delay

C1_Witness ==
    /\ rpc = "done" /\ result.ok /\ Failures = 3 /\ max_retries = 4
    /\ initial_delay = 2 /\ SumSeq(Slept) = 8

\* C2: an operation that fails on every attempt is invoked exactly N+1
\* times, never an (N+2)-th time, and the error returned is the error of the
\* last attempt.
C2_AlwaysFails ==
    /\ Calls <= max_retries + 1
    /\ (rpc = "done" /\ ~result.ok) =>
        /\ Calls = max_retries + 1
        /\ retries = max_retries
        /\ Failures = Calls
        /\ LastOutcome.kind = "err" /\ result.val = LastOutcome.val

C2_Witness ==
    /\ rpc = "done" /\ ~result.ok /\ max_retries = 2 /\ Calls = 3
    /\ Outcomes[1].val = "e1" /\ Outcomes[2].val = "e1" /\ result.val = "e2"

\* C3: the delay slept before the i-th retry is F(i) * d: the first two
\* waits equal d and every later wait is the sum of the two waits before it.
C3_DelaySchedule ==
    \A i \in 1..Len(Slept) :
        /\ Slept[i] = Fib(i) * initial_delay
        /\ i <= 2 => Slept[i] = initial_delay
        /\ i > 2 => Slept[i] = Slept[i - 1] + Slept[i - 2]

C3_Witness ==
    /\ Len(Slept) = 4 /\ initial_delay = 2
    /\ Slept = <<2, 2, 4, 6>>

\* C4: a success is the last thing that happens: the executor returns it, with
\* no sleep and no invocation after it; when the executor has returned, the
\* operation was invoked exactly retries + 1 times, one outcome per invocation.
C4_StopOnSuccess ==
    /\ \A i \in 1..Len(trace) :
         trace[i].kind = "ok" =>
            /\ i = Len(trace)
            /\ rpc = "done"
            /\ result = [ok |-> TRUE, val |-> trace[i].val]
    /\ rpc = "done" =>
        /\ Calls = retries + 1
        /\ Calls = Len(Slept) + 1
        /\ Len(Outcomes) = Calls

C4_Witness ==
    /\ rpc = "done" /\ result.ok /\ retries = 2 /\ Calls = 3
    /\ trace[Len(trace)].kind = "ok" /\ trace[Len(trace) - 1].kind = "call"

\* C5: one log event per retry, emitted after the failure and before that
\* retry's sleep, carrying the failure, the delay about to be slept and the
\* 1-based attempt index out of max_retries; no event for a success and none
\* for the failure that is returned.
C5_LogPerRetry ==
    /\ Len(Logs) = retries + (IF rpc = "sleeping" THEN 1 ELSE 0)
    /\ \A i \in 1..Len(Logs) :
        /\ Logs[i].attempt = i /\ i <= max_retries
        /\ Logs[i].max = max_retries
        /\ Logs[i].val = OfKind("err")[i].val
        /\ Logs[i].dur = Fib(i) * initial_delay
        /\ i <= Len(Slept) => Logs[i].dur = Slept[i]
    /\ \A j \in 1..Len(trace) :
        /\ trace[j].kind = "log" =>
            /\ j > 1 /\ trace[j - 1].kind = "err"
            /\ j < Len(trace) => trace[j + 1].kind = "sleep"
        /\ trace[j].kind = "sleep" => (j > 1 /\ trace[j - 1].kind = "log")
    /\ rpc = "done" =>
        /\ Len(Logs) = Calls - 1
        /\ trace[Len(trace)].kind \in {"ok", "err"}

C5_Witness ==
    /\ rpc = "done" /\ ~result.ok /\ max_retries = 3 /\ Len(Logs) = 3
    /\ Logs[3] = Event("log", "e2", 2 * initial_delay, 3, 3)
    /\ initial_delay = 1

(***************************************************************************)
(* The store behind the SDK client: what a scan request can be answered.   *)
(* The table is a stable snapshot; an item is a map of attributes.         *)
(***************************************************************************)
TableName == "testing-products"
PriceFilter == "price > :min_price"
PriceFilterValues == (":min_price" :> 25)
EmptyMap == [x \in {} |-> x]
Prices == {10, 30}

Min(a, b) == IF a < b THEN a ELSE b

\* The tables of up to MaxItems items; the key of an item is not its position.
KeyAt(i) == 10 * i + 1
Tables ==
    UNION { { [i \in 1..n |-> [key |-> KeyAt(i), price |-> pr[i]]] :
                pr \in [1..n -> Prices] } : n \in 0..MaxItems }

\* A scan request as the SDK builder holds it when send() is called.
ScanInput(name, filter, projection, names, values, lim, start) ==
    [table_name |-> name, filter_expression |-> filter,
     projection_expression |-> projection,
     expression_attribute_names |-> names,
     expression_attribute_values |-> values,
     limit |-> lim, exclusive_start_key |-> start]

\* The position in `cands` of the item a cursor names (0: before the first).
PosIn(cands, start) ==
    IF start = None THEN 0
    ELSE CHOOSE i \in 1..Len(cands) : cands[i].key = start[1].key

\* The store's evaluation of the filter expression on one item.
Matches(item, req) ==
    IF req.filter_expression = None THEN TRUE
    ELSE item.price > req.expression_attribute_values[1][":min_price"]

\* The store's projection of one item.
Project(item, req) ==
    IF req.projection_expression = None THEN item
    ELSE [price |-> item.price]

\* Every page the store can answer a read of the candidates `cands` with: it
\* evaluates at least one and at most `limit` of the candidates after the
\* cursor, returns those that match the filter, and names the last evaluated
\* item as the cursor whenever candidates are left (and possibly when it
\* stopped exactly at the end).
PageOutputs(cands, req) ==
    LET pos == PosIn(cands, req.exclusive_start_key)
        left == Len(cands) - pos
        cap == IF req.limit = None THEN left ELSE Min(req.limit[1], left)
        counts == IF left = 0 THEN {0} ELSE 1..cap
        page(n) ==
            LET evaluated == SubSeq(cands, pos + 1, pos + n)
                matching == SelectSeq(evaluated, LAMBDA it : Matches(it, req))
            IN  [j \in 1..Len(matching) |-> Project(matching[j], req)]
        keys(n) ==
            IF n = 0 THEN {None}
            ELSE IF pos + n < Len(cands) THEN {Some([key |-> cands[pos + n].key])}
            ELSE {None, Some([key |-> cands[pos + n].key])}
        lists(n) == IF page(n) = <<>> THEN {None, Some(<<>>)} ELSE {Some(page(n))}
    IN  UNION { { [items |-> l, last_evaluated_key |-> k] :
                    l \in lists(n), k \in keys(n) } : n \in counts }

\* Every answer the store can give to a scan request; it rejects a limit
\* below 1 and an empty filter expression.
ScanOutputs(req) ==
    IF req.limit # None /\ req.limit[1] < 1 THEN {}
    ELSE IF req.filter_expression = Some("") THEN {}
    ELSE PageOutputs(table, req)

\* response.items.unwrap_or_default() / if let Some(new_items) = response.items
UnwrapOrDefault(opt) == IF opt = None THEN <<>> ELSE opt[1]

Last(q) == q[Len(q)]
Ok(v) == [ok |-> TRUE, val |-> v]
Err(e) == [ok |-> FALSE, val |-> e]

(***************************************************************************)
(* DynamoDb::scan_table, src/dynamodb/client.rs:268-296.                   *)
(***************************************************************************)
ScanLoopStart ==
    /\ items = <<>> /\ last_evaluated_key = None
    /\ exclusive_start_key = None
    /\ spc = "loop" /\ sresult = NoResult
    /\ requests = <<>> /\ responses = <<>> /\ returned = <<>> /\ printed = <<>>
    /\ answered = <<>>

\* lines 276-280: the request of one turn of the loop
ScanTableInput ==
    ScanInput(TableName, None, None, None, None, None, last_evaluated_key)

\* lines 276-282: build the request and send it
ScanTableSend ==
    /\ fn = "scan_table" /\ spc = "loop"
    /\ requests' = Append(requests, ScanTableInput)
    /\ spc' = "await"
    /\ UNCHANGED <<scanArgs, items, last_evaluated_key, exclusive_start_key,
                   page_num, sresult, responses, returned, printed, answered>>
    /\ UNCHANGED notScan

\* Mutant of Extend: the page replaces what was accumulated.
ExtendReplaces(acc, opt) == UnwrapOrDefault(opt)

\* lines 284-286: items.extend(new_items)
Extend(acc, opt) == acc \o UnwrapOrDefault(opt)

\* lines 282-295: the response arrives; extend, take the cursor, break or loop
ScanTableReceive(resp) ==
    /\ fn = "scan_table" /\ spc = "await"
    /\ responses' = Append(responses, resp)
    /\ items' = Extend(items, resp.items)
    /\ last_evaluated_key' = resp.last_evaluated_key
    /\ IF resp.last_evaluated_key = None
       THEN spc' = "done" /\ sresult' = Ok(Extend(items, resp.items))
       ELSE spc' = "loop" /\ UNCHANGED sresult
    /\ UNCHANGED <<scanArgs, exclusive_start_key, page_num, requests,
                   returned, printed, answered>>
    /\ UNCHANGED notScan

\* line 282: scan.send().await? -- the request failed
ScanTableFails(e) ==
    /\ fn = "scan_table" /\ spc = "await"
    /\ spc' = "done" /\ sresult' = Err(e)
    /\ UNCHANGED <<scanArgs, items, last_evaluated_key, exclusive_start_key,
                   page_num, requests, responses, returned, printed, answered>>
    /\ UNCHANGED notScan

(***************************************************************************)
(* DynamoDb::scan, src/dynamodb/client.rs:299-346.                         *)
(***************************************************************************)
\* Mutant of ScanFnInput: the filter is attached to the first request only.
ScanFnInputFilterOnce ==
    ScanInput(TableName,
              IF last_evaluated_key = None THEN filter_expression ELSE None,
              None, expression_attribute_names,
              expression_attribute_values, None, last_evaluated_key)

\* lines 310-326: each optional part is attached when it is Some
ScanFnInput ==
    ScanInput(TableName, filter_expression, None, expression_attribute_names,
              expression_attribute_values, None, last_evaluated_key)

\* lines 310-328: build the request and send it
ScanFnSend ==
    /\ fn = "scan" /\ spc = "loop"
    /\ requests' = Append(requests, ScanFnInput)
    /\ spc' = "await"
    /\ UNCHANGED <<scanArgs, items, last_evaluated_key, exclusive_start_key,
                   page_num, sresult, responses, returned, printed, answered>>
    /\ UNCHANGED notScan

\* lines 330-336: items.extend(new_items.into_iter().map(Item))
ExtendItems(acc, opt) == acc \o UnwrapOrDefault(opt)

ScanFnReceiveStopsOnEmptyPage(resp) ==
    /\ fn = "scan" /\ spc = "await"
    /\ responses' = Append(responses, resp)
    /\ items' = ExtendItems(items, resp.items)
    /\ last_evaluated_key' = resp.last_evaluated_key
    /\ IF resp.last_evaluated_key = None \/ UnwrapOrDefault(resp.items) = <<>>
       THEN spc' = "done" /\ sresult' = Ok(ExtendItems(items, resp.items))
       ELSE spc' = "loop" /\ UNCHANGED sresult
    /\ UNCHANGED <<scanArgs, exclusive_start_key, page_num, requests,
                   returned, printed, answered>>
    /\ UNCHANGED notScan

\* lines 328-345: the response arrives; extend, take the cursor, break or loop
ScanFnReceive(resp) ==
    /\ fn = "scan" /\ spc = "await"
    /\ responses' = Append(responses, resp)
    /\ items' = ExtendItems(items, resp.items)
    /\ last_evaluated_key' = resp.last_evaluated_key
    /\ IF resp.last_evaluated_key = None
       THEN spc' = "done" /\ sresult' = Ok(ExtendItems(items, resp.items))
       ELSE spc' = "loop" /\ UNCHANGED sresult
    /\ UNCHANGED <<scanArgs, exclusive_start_key, page_num, requests,
                   returned, printed, answered>>
    /\ UNCHANGED notScan

ScanFnFailsReturnsPartial(e) ==
    /\ fn = "scan" /\ spc = "await"
    /\ spc' = "done" /\ sresult' = Ok(items)
    /\ UNCHANGED <<scanArgs, items, last_evaluated_key, exclusive_start_key,
                   page_num, requests, responses, returned, printed, answered>>
    /\ UNCHANGED notScan

\* line 328: scan.send().await? -- the request failed
ScanFnFails(e) ==
    /\ fn = "scan" /\ spc = "await"
    /\ spc' = "done" /\ sresult' = Err(e)
    /\ UNCHANGED <<scanArgs, items, last_evaluated_key, exclusive_start_key,
                   page_num, requests, responses, returned, printed, answered>>
    /\ UNCHANGED notScan

(***************************************************************************)
(* DynamoDb::scan_paginated, src/dynamodb/client.rs:528-559.               *)
(***************************************************************************)
\* lines 538-547: every optional part is set from the argument as it is
ScanPaginatedInput(name, filter, projection, names, values, lim, start) ==
    ScanInput(name, filter, projection, names, values, lim, start)

\* Mutant of ScanPaginatedOutput: an empty page is taken for the end.
ScanPaginatedOutputEndsOnEmpty(resp) ==
    [items |-> UnwrapOrDefault(resp.items),
     cursor |-> IF UnwrapOrDefault(resp.items) = <<>> THEN None
                ELSE resp.last_evaluated_key]

\* lines 551-558: Ok((items, response.last_evaluated_key))
ScanPaginatedOutput(resp) ==
    [items |-> UnwrapOrDefault(resp.items), cursor |-> resp.last_evaluated_key]

(***************************************************************************)
(* scan_paginated_items, src/command_line.rs:580-642, from line 604 on.    *)
(***************************************************************************)
Answers == {"y", "Y", "n", ""}
ToLowercase(a) == IF a = "Y" THEN "y" ELSE a

\* lines 608-618: one call of scan_paginated, which sends one request
CliCallScanPaginated ==
    /\ fn = "scan_paginated_items" /\ spc = "loop"
    /\ requests' = Append(requests,
          ScanPaginatedInput(TableName, filter_expression, projection_expression,
                             expression_attribute_names, expression_attribute_values,
                             limit, exclusive_start_key))
    /\ spc' = "await"
    /\ UNCHANGED <<scanArgs, items, last_evaluated_key, exclusive_start_key,
                   page_num, sresult, responses, returned, printed, answered>>
    /\ UNCHANGED notScan

\* lines 608-630: the call returns a page; print it; break when no cursor
CliPageReturned(resp) ==
    /\ fn = "scan_paginated_items" /\ spc = "await"
    /\ responses' = Append(responses, resp)
    /\ returned' = Append(returned, ScanPaginatedOutput(resp))
    /\ items' = ScanPaginatedOutput(resp).items
    /\ last_evaluated_key' = ScanPaginatedOutput(resp).cursor
    /\ printed' = Append(printed, [page |-> page_num,
                                   items |-> ScanPaginatedOutput(resp).items])
    /\ IF ScanPaginatedOutput(resp).cursor = None
       THEN spc' = "done" /\ sresult' = Ok("unit")
       ELSE spc' = "prompt" /\ UNCHANGED sresult
    /\ UNCHANGED <<scanArgs, exclusive_start_key, page_num, requests, answered>>
    /\ UNCHANGED notScan

\* line 618: .await? -- scan_paginated returned an error
CliScanFails(e) ==
    /\ fn = "scan_paginated_items" /\ spc = "await"
    /\ spc' = "done" /\ sresult' = Err(e)
    /\ UNCHANGED <<scanArgs, items, last_evaluated_key, exclusive_start_key,
                   page_num, requests, responses, returned, printed, answered>>
    /\ UNCHANGED notScan

CliAnswerDefaultsYes(a) ==
    /\ fn = "scan_paginated_items" /\ spc = "prompt"
    /\ IF ToLowercase(a) \notin {"y", ""}
       THEN /\ spc' = "done" /\ sresult' = Ok("unit")
            /\ UNCHANGED <<exclusive_start_key, page_num>>
       ELSE /\ exclusive_start_key' = last_evaluated_key
            /\ page_num' = page_num + 1
            /\ spc' = "loop" /\ UNCHANGED sresult
    /\ answered' = Append(answered, a)
    /\ UNCHANGED <<scanArgs, items, last_evaluated_key, requests, responses,
                   returned, printed>>
    /\ UNCHANGED notScan

\* lines 632-638: "Continue to next page? (y/n)"
CliAnswer(a) ==
    /\ fn = "scan_paginated_items" /\ spc = "prompt"
    /\ IF ToLowercase(a) # "y"
       THEN /\ spc' = "done" /\ sresult' = Ok("unit")
            /\ UNCHANGED <<exclusive_start_key, page_num>>
       ELSE /\ exclusive_start_key' = last_evaluated_key
            /\ page_num' = page_num + 1
            /\ spc' = "loop" /\ UNCHANGED sresult
    /\ answered' = Append(answered, a)
    /\ UNCHANGED <<scanArgs, items, last_evaluated_key, requests, responses,
                   returned, printed>>
    /\ UNCHANGED notScan

\* line 632: prompt(..)? -- reading the answer failed
CliPromptFails(e) ==
    /\ fn = "scan_paginated_items" /\ spc = "prompt"
    /\ spc' = "done" /\ sresult' = Err(e)
    /\ UNCHANGED <<scanArgs, items, last_evaluated_key, exclusive_start_key,
                   page_num, requests, responses, returned, printed, answered>>
    /\ UNCHANGED notScan

(***************************************************************************)
(* The paging loops, each started on every table and argument list.        *)
(***************************************************************************)
\* scan_items, command_line.rs:310-331: the arguments it passes to scan()
\* after the filter prompt returned `line`
ScanItemsArgs(line) ==
    IF line # ""
    THEN <<Some(line), Some(EmptyMap), Some(PriceFilterValues)>>
    ELSE <<Some(line), Some(EmptyMap), Some(EmptyMap)>>

\* scan(): the arguments the callers pass
ScanFnArgs ==
    { <<None, None, None>>,
      <<Some(PriceFilter), None, Some(PriceFilterValues)>>,
      ScanItemsArgs(PriceFilter),
      ScanItemsArgs("") }

\* scan_paginated_items, lines 581-602: what the prompts leave in the locals
CliArgs ==
    { <<f, p, Some(EmptyMap), IF f = None THEN Some(EmptyMap) ELSE Some(PriceFilterValues), l>> :
        f \in {None, Some(PriceFilter)}, p \in {None, Some("price")},
        l \in {None, Some(0), Some(1), Some(2)} }

InitScan ==
    /\ table \in Tables
    /\ fn \in {"scan_table", "scan", "scan_paginated_items"}
    /\ \/ /\ fn = "scan_table"
          /\ filter_expression = None /\ projection_expression = None
          /\ expression_attribute_names = None
          /\ expression_attribute_values = None
          /\ limit = None /\ page_num = 0
       \/ /\ fn = "scan"
          /\ \E a \in ScanFnArgs :
                /\ filter_expression = a[1]
                /\ expression_attribute_names = a[2]
                /\ expression_attribute_values = a[3]
          /\ projection_expression = None /\ limit = None /\ page_num = 0
       \/ /\ fn = "scan_paginated_items"
          /\ \E a \in CliArgs :
                /\ filter_expression = a[1]
                /\ projection_expression = a[2]
                /\ expression_attribute_names = a[3]
                /\ expression_attribute_values = a[4]
                /\ limit = a[5]
          /\ page_num = 1
    /\ ScanLoopStart
    /\ RetryIdle
    /\ QueryIdle
    /\ TableIdle
    /\ CrudIdle
    /\ ItemIdle
    /\ CliIdle
    /\ HandlerIdle

\* The answers the store can give to the request in flight.
Answerable == IF spc = "await" THEN ScanOutputs(Last(requests)) ELSE {}

NextScan ==
    \/ ScanTableSend
    \/ \E resp \in Answerable : ScanTableReceive(resp)
    \/ \E e \in Errors : ScanTableFails(e)
    \/ ScanFnSend
    \/ \E resp \in Answerable : ScanFnReceive(resp)
    \/ \E e \in Errors : ScanFnFails(e)
    \/ CliCallScanPaginated
    \/ \E resp \in Answerable : CliPageReturned(resp)
    \/ \E e \in Errors : CliScanFails(e)
    \/ \E a \in Answers : CliAnswer(a)
    \/ \E e \in Errors : CliPromptFails(e)

SpecScan == InitScan /\ [][NextScan]_vars

(***************************************************************************)
(* Properties of the paging loops.                                         *)
(***************************************************************************)
\* The items of the table a filter selects, without any paging.
Selected(filter) ==
    IF filter = None THEN table
    ELSE SelectSeq(table, LAMBDA it : it.price > 25)

RECURSIVE Pages(_)
Pages(rs) ==
    IF rs = <<>> THEN <<>>
    ELSE (IF Head(rs).items = None THEN <<>> ELSE Head(rs).items[1]) \o Pages(Tail(rs))

NoDuplicates(q) == \A i, j \in 1..Len(q) : q[i] = q[j] => i = j

\* C6: scan_table and scan, whatever the page split, return every item of the
\* table (that matches the filter) exactly once and in page order.
C6_FullEnumeration ==
    (fn \in {"scan_table", "scan"} /\ spc = "done" /\ sresult.ok) =>
        /\ sresult.val = Selected(filter_expression)
        /\ sresult.val = Pages(responses)
        /\ NoDuplicates(sresult.val)

C6_Witness ==
    /\ fn = "scan" /\ spc = "done" /\ sresult.ok
    /\ filter_expression # None /\ Len(table) = 3
    /\ Len(responses) = 3 /\ Len(sresult.val) = 2
    /\ responses[2].items \in {None, Some(<<>>)}

\* C7: in each paging loop the first request has no start key, request i+1
\* carries exactly the last-evaluated key of response i, and every other part
\* of the request is the same in all requests of the loop.
SameButStart(r1, r2) ==
    [r1 EXCEPT !.exclusive_start_key = None] = [r2 EXCEPT !.exclusive_start_key = None]

C7_CursorThreading ==
    /\ requests # <<>> =>
        /\ requests[1].exclusive_start_key = None
        /\ requests[1].table_name = TableName
        /\ requests[1].filter_expression = filter_expression
        /\ requests[1].projection_expression = projection_expression
        /\ requests[1].expression_attribute_names = expression_attribute_names
        /\ requests[1].expression_attribute_values = expression_attribute_values
        /\ requests[1].limit = limit
    /\ \A i \in 1..(Len(requests) - 1) :
        /\ i <= Len(responses)
        /\ responses[i].last_evaluated_key # None
        /\ requests[i + 1].exclusive_start_key = responses[i].last_evaluated_key
        /\ SameButStart(requests[i + 1], requests[1])

C7_Witness ==
    /\ fn = "scan" /\ filter_expression # None
    /\ Len(requests) = 3
    /\ requests[2].exclusive_start_key = Some([key |-> 11])
    /\ requests[3].exclusive_start_key = Some([key |-> 21])

\* C8: one scan_paginated call is one request; it returns the page's items
\* (an absent list as the empty page) with the store's last-evaluated key as
\* it is, so the cursor is absent exactly when the store reported none.
C8_OnePagePerCall ==
    fn = "scan_paginated_items" =>
        /\ Len(requests) = (IF spc = "loop" THEN page_num - 1 ELSE page_num)
        /\ Len(returned) = Len(responses)
        /\ Len(requests) - Len(returned) \in {0, 1}
        /\ spc \in {"loop", "prompt"} => Len(requests) = Len(returned)
        /\ \A i \in 1..Len(returned) :
            /\ returned[i].cursor = responses[i].last_evaluated_key
            /\ (returned[i].cursor = None) <=> (responses[i].last_evaluated_key = None)
            /\ responses[i].items = None => returned[i].items = <<>>
            /\ responses[i].items # None => returned[i].items = responses[i].items[1]

C8_Witness ==
    /\ fn = "scan_paginated_items" /\ Len(returned) = 2
    /\ responses[1].items = None /\ responses[1].last_evaluated_key # None
    /\ returned[1] = [items |-> <<>>, cursor |-> Some([key |-> 11])]
    /\ returned[2].cursor = None /\ returned[2].items # <<>>

(***************************************************************************)
(* The store's answers to a query request.  An expression is the sequence  *)
(* of its tokens; the table holds the items of the partition "Electronics" *)
(* in sort-key order.                                                      *)
(***************************************************************************)
PartitionKeyName == "category"
SortKeyName == "product_name"
PartitionValue == "Electronics"
CompareOps == {"=", "<", "<=", ">", ">="}

Compare(op, a, b) ==
    CASE op = "=" -> a = b
      [] op = "<" -> a < b
      [] op = "<=" -> a <= b
      [] op = ">" -> a > b
      [] op = ">=" -> a >= b

Range(f) == { f[x] : x \in DOMAIN f }
Placeholders(tokens, mark) ==
    { t \in Range(tokens) : t \in {"#pk", "#sk"} /\ mark = "#" }
    \cup { t \in Range(tokens) : t \in {":pkval", ":skval", ":skval2", ":min_price"}
                                  /\ mark = ":" }

FilterTokens(filter) ==
    IF filter = None THEN <<>> ELSE <<"price", ">", ":min_price">>

\* The key condition forms the store parses: the partition-key equality, with
\* one comparison or one BETWEEN on the sort key; the sort key of a comparison
\* is named by its placeholder or by its attribute name.
KeyConditionForm(kce) ==
    IF kce = <<"#pk", "=", ":pkval">> THEN "pk"
    ELSE IF /\ Len(kce) = 7 /\ SubSeq(kce, 1, 4) = <<"#pk", "=", ":pkval", "AND">>
            /\ kce[5] \in {"#sk", SortKeyName}
            /\ kce[6] \in CompareOps /\ kce[7] = ":skval" THEN "compare"
    ELSE IF kce = <<"#pk", "=", ":pkval", "AND", "#sk", "BETWEEN", ":skval", "AND", ":skval2">>
         THEN "between"
    ELSE "invalid"

MapOf(opt) == IF opt = None THEN EmptyMap ELSE opt[1]

\* The store rejects a request whose key condition does not parse, whose
\* placeholders are not all defined, whose maps define a placeholder no
\* expression uses, or whose limit is below 1.
QueryValid(req) ==
    LET kce == req.key_condition_expression
        used == kce \o FilterTokens(req.filter_expression)
        names == MapOf(req.expression_attribute_names)
        values == MapOf(req.expression_attribute_values)
    IN  /\ KeyConditionForm(kce) # "invalid"
        /\ Placeholders(used, "#") = DOMAIN names
        /\ Placeholders(used, ":") = DOMAIN values
        /\ names["#pk"] = PartitionKeyName
        /\ "#sk" \in DOMAIN names => names["#sk"] = SortKeyName
        /\ req.limit # None => req.limit[1] >= 1
        /\ req.index_name = None

RECURSIVE Reverse(_)
Reverse(q) == IF q = <<>> THEN <<>> ELSE Append(Reverse(Tail(q)), Head(q))

\* The items the key condition selects, in the order the query reads them.
Candidates(req) ==
    LET kce == req.key_condition_expression
        values == MapOf(req.expression_attribute_values)
        form == KeyConditionForm(kce)
        hit(it) ==
            /\ values[":pkval"] = PartitionValue
            /\ form = "compare" => Compare(kce[6], it.key, values[":skval"])
            /\ form = "between" =>
                 (values[":skval"] <= it.key /\ it.key <= values[":skval2"])
        selected == SelectSeq(table, hit)
    IN  IF req.scan_index_forward = Some(FALSE) THEN Reverse(selected) ELSE selected

QueryOutputs(req) ==
    IF QueryValid(req) THEN PageOutputs(Candidates(req), req) ELSE {}

(***************************************************************************)
(* DynamoDb::query_flexible, src/dynamodb/client.rs:393-430.               *)
(***************************************************************************)
QueryFlexibleParams(name, kce, names, values, filter, projection, lim, forward, index) ==
    [table_name |-> name, key_condition_expression |-> kce,
     expression_attribute_names |-> names, expression_attribute_values |-> values,
     filter_expression |-> filter, projection_expression |-> projection,
     limit |-> lim, scan_index_forward |-> forward, index_name |-> index]

\* lines 394-420: the request built from the params; no start key is ever set
QueryInput(params) ==
    [table_name |-> params.table_name,
     key_condition_expression |-> params.key_condition_expression,
     expression_attribute_names |-> params.expression_attribute_names,
     expression_attribute_values |-> params.expression_attribute_values,
     filter_expression |-> params.filter_expression,
     projection_expression |-> params.projection_expression,
     limit |-> params.limit,
     scan_index_forward |-> params.scan_index_forward,
     index_name |-> params.index_name,
     exclusive_start_key |-> None]

\* lines 424-429: Ok(response.items.unwrap_or_default() ... collect())
QueryFlexibleOutput(resp) == [items |-> UnwrapOrDefault(resp.items)]

\* lines 394-422: query_flexible called directly: build the request, send it
QueryFlexibleSend ==
    /\ qfn = "query_flexible" /\ qpc = "call"
    /\ qrequests' = Append(qrequests, QueryInput(qparams[1]))
    /\ qpc' = "await"
    /\ UNCHANGED <<qfn, qargs, qparams, qresult, qresponses>>
    /\ UNCHANGED notQuery

(***************************************************************************)
(* DynamoDb::query_simple, src/dynamodb/client.rs:460-493.                 *)
(***************************************************************************)
InsertKeepsOld(map, k, v) ==
    [x \in DOMAIN map \cup {k} |-> IF x \in DOMAIN map THEN map[x] ELSE v]

\* HashMap::insert: the entry for k is set, replacing an earlier one
Insert(map, k, v) == [x \in DOMAIN map \cup {k} |-> IF x = k THEN v ELSE map[x]]

QuerySimpleParamsNoSortName(a) ==
    LET kce0 == <<"#pk", "=", ":pkval">>
        names == Insert(EmptyMap, "#pk", a.partition_key[1])
        values0 == Insert(MapOf(a.expression_attribute_values), ":pkval",
                          a.partition_key[2])
        sk == a.sort_key_condition
        kce == IF sk = None THEN kce0
               ELSE kce0 \o <<"AND", "#sk", sk[1][2], ":skval">>
        values == IF sk = None THEN values0 ELSE Insert(values0, ":skval", sk[1][3])
    IN  QueryFlexibleParams(a.table_name, kce, Some(names), Some(values),
                            a.filter_expression, None, a.limit, None, None)

\* lines 469-491: the params synthesized from the arguments
QuerySimpleParams(a) ==
    LET kce0 == <<"#pk", "=", ":pkval">>
        names0 == Insert(EmptyMap, "#pk", a.partition_key[1])
        values0 == Insert(MapOf(a.expression_attribute_values), ":pkval",
                          a.partition_key[2])
        sk == a.sort_key_condition
        kce == IF sk = None THEN kce0
               ELSE kce0 \o <<"AND", "#sk", sk[1][2], ":skval">>
        names == IF sk = None THEN names0 ELSE Insert(names0, "#sk", sk[1][1])
        values == IF sk = None THEN values0 ELSE Insert(values0, ":skval", sk[1][3])
    IN  QueryFlexibleParams(a.table_name, kce, Some(names), Some(values),
                            a.filter_expression, None, a.limit, None, None)

\* lines 469-492: query_simple: synthesize the params, call query_flexible
QuerySimpleSend ==
    /\ qfn = "query_simple" /\ qpc = "call"
    /\ qparams' = Some(QuerySimpleParams(qargs[1]))
    /\ qrequests' = Append(qrequests, QueryInput(QuerySimpleParams(qargs[1])))
    /\ qpc' = "await"
    /\ UNCHANGED <<qfn, qargs, qresult, qresponses>>
    /\ UNCHANGED notQuery

(***************************************************************************)
(* DynamoDb::query_items, src/dynamodb.rs:285-317.                         *)
(***************************************************************************)
\* lines 291-307: the request built from the partition key and the optional
\* sort-key condition; the expression names the sort key by its attribute name
QueryItemsInput(a) ==
    LET pk == a.partition_key
        sk == a.sort_key_condition
        kce == IF sk = None THEN <<"#pk", "=", ":pkval">>
               ELSE <<"#pk", "=", ":pkval", "AND", sk[1][1], sk[1][2], ":skval">>
        names0 == Insert(EmptyMap, "#pk", pk[1])
        values0 == Insert(EmptyMap, ":pkval", pk[2])
        names == IF sk = None THEN names0 ELSE Insert(names0, "#sk", sk[1][1])
        values == IF sk = None THEN values0 ELSE Insert(values0, ":skval", sk[1][3])
    IN  QueryInput(QueryFlexibleParams(a.table_name, kce, Some(names), Some(values),
                                       None, None, None, None, None))

\* line 309: query.send()
QueryItemsSend ==
    /\ qfn = "query_items" /\ qpc = "call"
    /\ qrequests' = Append(qrequests, QueryItemsInput(qargs[1]))
    /\ qpc' = "await"
    /\ UNCHANGED <<qfn, qargs, qparams, qresult, qresponses>>
    /\ UNCHANGED notQuery

(***************************************************************************)
(* The CLI command query, src/command_line.rs:224-294.                     *)
(***************************************************************************)
\* lines 225-282: the params built from the table and the answers typed
CliQueryItemsParams(a) ==
    LET sk == a.sort_key_condition
        kce0 == <<"#pk", "=", ":pkval">>
        names0 == ("#pk" :> a.partition_key[1])
        values0 == (":pkval" :> a.partition_key[2])
        kce1 == IF sk = None THEN kce0 ELSE kce0 \o <<"AND", "#sk", sk[1][2], ":skval">>
        names1 == IF sk = None THEN names0 ELSE Insert(names0, "#sk", sk[1][1])
        values1 == IF sk = None THEN values0 ELSE Insert(values0, ":skval", sk[1][3])
        between == sk # None /\ sk[1][2] = "BETWEEN"
        kce == IF between THEN kce1 \o <<"AND", ":skval2">> ELSE kce1
        values2 == IF between THEN Insert(values1, ":skval2", sk[1][4]) ELSE values1
        names == IF a.filter_expression = None THEN names1
                 ELSE a.filter_attribute_names @@ names1
        values == IF a.filter_expression = None THEN values2
                  ELSE a.filter_attribute_values @@ values2
    IN  QueryFlexibleParams(a.table_name, kce, Some(names), Some(values),
                            a.filter_expression, None, a.limit, None, None)

\* line 284: ddb.query_flexible(params)
CliQueryItemsSend ==
    /\ qfn = "cli_query_items" /\ qpc = "call"
    /\ qparams' = Some(CliQueryItemsParams(qargs[1]))
    /\ qrequests' = Append(qrequests, QueryInput(CliQueryItemsParams(qargs[1])))
    /\ qpc' = "await"
    /\ UNCHANGED <<qfn, qargs, qresult, qresponses>>
    /\ UNCHANGED notQuery

\* lines 422-429: the response arrives and its items are returned
QueryReceive(resp) ==
    /\ qpc = "await"
    /\ qresponses' = Append(qresponses, resp)
    /\ qresult' = Ok(QueryFlexibleOutput(resp))
    /\ qpc' = "done"
    /\ UNCHANGED <<qfn, qargs, qparams, qrequests>>
    /\ UNCHANGED notQuery

\* line 422: query.send().await? -- the request failed or was rejected
QueryFails(e) ==
    /\ qpc = "await"
    /\ qresult' = Err(e)
    /\ qpc' = "done"
    /\ UNCHANGED <<qfn, qargs, qparams, qrequests, qresponses>>
    /\ UNCHANGED notQuery

\* A caller's values map that already binds :pkval and :skval.
StaleValues == (":pkval" :> "Stale" @@ ":skval" :> 99 @@ ":min_price" :> 25)

\* The arguments the callers of query_simple pass.
QuerySimpleArgs ==
    { [table_name |-> TableName,
       partition_key |-> <<PartitionKeyName, pv>>,
       sort_key_condition |-> sk,
       filter_expression |-> fe[1], limit |-> l,
       expression_attribute_values |-> fe[2]] :
        pv \in {PartitionValue, "Books"},
        sk \in {None} \cup { Some(<<SortKeyName, op, 21>>) :
                                op \in CompareOps \cup {"BETWEEN", "~="} },
        fe \in { <<None, None>>, <<None, Some(EmptyMap)>>,
                 <<Some(PriceFilter), Some(PriceFilterValues)>>,
                 <<Some(PriceFilter), Some(StaleValues)>> },
        l \in {None, Some(1), Some(2)} }

\* The params the callers of query_flexible pass.
QueryFlexibleArgs ==
    { QueryFlexibleParams(TableName, kv[1],
          Some(IF Len(kv[1]) = 3 THEN ("#pk" :> PartitionKeyName)
               ELSE ("#pk" :> PartitionKeyName @@ "#sk" :> SortKeyName)),
          Some(IF fe = None THEN kv[2] ELSE kv[2] @@ PriceFilterValues),
          fe, pe, l, fw, ix) :
        kv \in { <<(<<"#pk", "=", ":pkval">>), (":pkval" :> PartitionValue)>>,
                 <<(<<"#pk", "=", ":pkval", "AND", "#sk", ">=", ":skval">>),
                   (":pkval" :> PartitionValue @@ ":skval" :> 21)>>,
                 <<(<<"#pk", "=", ":pkval", "AND", "#sk", "BETWEEN", ":skval",
                      "AND", ":skval2">>),
                   (":pkval" :> PartitionValue @@ ":skval" :> 11 @@ ":skval2" :> 21)>> },
        fe \in {None, Some(PriceFilter)},
        pe \in {None, Some("price")},
        l \in {None, Some(0), Some(1), Some(2)},
        fw \in {None, Some(FALSE)},
        ix \in {None, Some("GSI1")} }

\* The arguments the callers of query_items pass.
QueryItemsArgs ==
    { [table_name |-> TableName,
       partition_key |-> <<PartitionKeyName, pv>>,
       sort_key_condition |-> sk] :
        pv \in {PartitionValue, "Books"},
        sk \in {None} \cup { Some(<<SortKeyName, op, 21>>) : op \in CompareOps } }

\* The table and the answers the CLI command query works from.
CliQueryItemsArgs ==
    { [table_name |-> TableName,
       partition_key |-> <<PartitionKeyName, pv>>,
       sort_key_condition |-> sk,
       filter_expression |-> fe[1],
       filter_attribute_names |-> EmptyMap,
       filter_attribute_values |-> fe[2],
       limit |-> l] :
        pv \in {PartitionValue, "Books"},
        sk \in {None} \cup { Some(<<SortKeyName, op, 11, 21>>) :
                                op \in {"=", ">", "BETWEEN", "~="} },
        fe \in { <<None, EmptyMap>>, <<Some(PriceFilter), PriceFilterValues>>,
                 <<Some(PriceFilter), StaleValues>> },
        l \in {None, Some(0), Some(1)} }

InitQuery ==
    /\ table \in Tables
    /\ qfn \in {"query_flexible", "query_simple", "query_items", "cli_query_items"}
    /\ \/ /\ qfn = "query_flexible"
          /\ qargs = None
          /\ qparams \in { Some(x) : x \in QueryFlexibleArgs }
       \/ /\ qfn = "query_simple"
          /\ qargs \in { Some(x) : x \in QuerySimpleArgs }
          /\ qparams = None
       \/ /\ qfn = "query_items"
          /\ qargs \in { Some(x) : x \in QueryItemsArgs }
          /\ qparams = None
       \/ /\ qfn = "cli_query_items"
          /\ qargs \in { Some(x) : x \in CliQueryItemsArgs }
          /\ qparams = None
    /\ qpc = "call" /\ qresult = NoResult
    /\ qrequests = <<>> /\ qresponses = <<>>
    /\ RetryIdle
    /\ ScanIdle
    /\ TableIdle
    /\ CrudIdle
    /\ ItemIdle
    /\ CliIdle
    /\ HandlerIdle

QueryAnswerable == IF qpc = "await" THEN QueryOutputs(Last(qrequests)) ELSE {}

NextQuery ==
    \/ QueryFlexibleSend
    \/ QuerySimpleSend
    \/ QueryItemsSend
    \/ CliQueryItemsSend
    \/ \E resp \in QueryAnswerable : QueryReceive(resp)
    \/ \E e \in Errors : QueryFails(e)

SpecQuery == InitQuery /\ [][NextQuery]_vars

(***************************************************************************)
(* Properties of the query calls.                                          *)
(***************************************************************************)
\* Every item a query request selects and its filter accepts, without paging.
AllMatching(req) ==
    LET matching == SelectSeq(Candidates(req), LAMBDA it : Matches(it, req))
    IN  [j \in 1..Len(matching) |-> Project(matching[j], req)]

\* C9: when the query response carries a last-evaluated key, the call returns
\* that cursor or has fetched the further pages itself: no matching item is
\* dropped.
C9_NoItemDropped ==
    (qpc = "done" /\ qresult.ok /\ Last(qresponses).last_evaluated_key # None) =>
        \/ /\ "cursor" \in DOMAIN qresult.val
           /\ qresult.val.cursor = Last(qresponses).last_evaluated_key
        \/ qresult.val.items = AllMatching(Last(qrequests))

(***************************************************************************)
(* The store's tables.  list_tables answers with one page: the first       *)
(* ListTablesPageSize names in alphabetical order.                         *)
(***************************************************************************)
Callers == {1, 2}
OtherNames == <<"archive", "orders", "sessions">>
NameOrder == OtherNames \o <<TableName>>
ServiceErrors == {"ServiceUnavailable"}

\* Table::new(name, partition_key, sort_key), src/dynamodb/table.rs:61-68
TableNew(name, partition_key, sort_key) ==
    [name |-> name, partition_key |-> partition_key, sort_key |-> sort_key,
     schema |-> None]

\* lines 129-146: the key schema of the create request
KeySchemaOf(t) ==
    <<[attribute_name |-> t.partition_key, key_type |-> "HASH"]>>
    \o (IF t.sort_key = None THEN <<>>
        ELSE <<[attribute_name |-> t.sort_key[1], key_type |-> "RANGE"]>>)

\* lines 124-140: the attribute definitions of the create request
AttributeDefinitionsOf(t) ==
    <<[attribute_name |-> t.partition_key, attribute_type |-> "S"]>>
    \o (IF t.sort_key = None THEN <<>>
        ELSE <<[attribute_name |-> t.sort_key[1], attribute_type |-> "S"]>>)

\* lines 149-156: the create request
CreateTableInput(c, t) ==
    [op |-> "create_table", caller |-> c, table_name |-> t.name,
     billing_mode |-> "PAY_PER_REQUEST",
     attribute_definitions |-> AttributeDefinitionsOf(t),
     key_schema |-> KeySchemaOf(t)]

ListTablesInput(c) == [op |-> "list_tables", caller |-> c]

\* The description the store keeps of a table.
Described(key_schema) == [key_schema |-> key_schema]

\* The answer to list_tables: the first page of the names, in order.
ListTablesOutput ==
    LET present == SelectSeq(NameOrder, LAMBDA n : n \in DOMAIN tables)
    IN  SubSeq(present, 1, Min(ListTablesPageSize, Len(present)))

\* line 175: tables.table_names().contains(&table_name.to_string())
Contains(names, name) == \E i \in 1..Len(names) : names[i] = name

CreateRequests == SelectSeq(treqs, LAMBDA r : r.op = "create_table")
CallsStarted == Len(SelectSeq(treqs, LAMBDA r : r.op = "list_tables"))

\* A finished call: its result, and what it leaves behind.
Finished(res, store, reqs) ==
    [res |-> res, tables |-> store,
     creates |-> Len(SelectSeq(reqs, LAMBDA r : r.op = "create_table"))]

(***************************************************************************)
(* DynamoDb::create_table_if_not_exists, src/dynamodb/client.rs:115-159,   *)
(* with table_exists, lines 173-176.                                       *)
(***************************************************************************)
\* lines 119, 174: the call starts by sending list_tables
CreateIfNotExistsCall(c) ==
    /\ cpc[c] = "idle" /\ CallsStarted < MaxCalls
    /\ treqs' = Append(treqs, ListTablesInput(c))
    /\ cpc' = [cpc EXCEPT ![c] = "await_list"]
    /\ UNCHANGED <<tables, tdesc, cresults>>
    /\ UNCHANGED notTable

\* lines 173-176: table_exists from the list_tables answer
TableExists(names, name) == Contains(names, name)

\* lines 119-157: the list arrives; return None when the table is listed,
\* otherwise build the create request and send it
ListTablesReturns(c) ==
    /\ cpc[c] = "await_list"
    /\ IF TableExists(ListTablesOutput, tdesc.name)
       THEN /\ cresults' = [cresults EXCEPT
                              ![c] = Append(@, Finished(Ok("None"), tables, treqs))]
            /\ cpc' = [cpc EXCEPT ![c] = "idle"]
            /\ UNCHANGED treqs
       ELSE /\ treqs' = Append(treqs, CreateTableInput(c, tdesc))
            /\ cpc' = [cpc EXCEPT ![c] = "await_create"]
            /\ UNCHANGED cresults
    /\ UNCHANGED <<tables, tdesc>>
    /\ UNCHANGED notTable

\* lines 119, 174: list_tables().send().await? failed
ListTablesFails(c, e) ==
    /\ cpc[c] = "await_list"
    /\ cresults' = [cresults EXCEPT ![c] = Append(@, Finished(Err(e), tables, treqs))]
    /\ cpc' = [cpc EXCEPT ![c] = "idle"]
    /\ UNCHANGED <<tables, tdesc, treqs>>
    /\ UNCHANGED notTable

\* lines 149-158: the store handles the create request and the call returns:
\* a table of that name makes the store refuse the request
CreateTableReturns(c) ==
    /\ cpc[c] = "await_create"
    /\ LET req == CHOOSE r \in Range(treqs) : r.op = "create_table" /\ r.caller = c
       IN  IF req.table_name \in DOMAIN tables
           THEN /\ cresults' = [cresults EXCEPT
                      ![c] = Append(@, Finished(Err("ResourceInUseException"),
                                                tables, treqs))]
                /\ UNCHANGED tables
           ELSE /\ tables' = Insert(tables, req.table_name, Described(req.key_schema))
                /\ cresults' = [cresults EXCEPT
                      ![c] = Append(@, Finished(Ok("Some"),
                                 Insert(tables, req.table_name,
                                        Described(req.key_schema)), treqs))]
    /\ cpc' = [cpc EXCEPT ![c] = "idle"]
    /\ UNCHANGED <<tdesc, treqs>>
    /\ UNCHANGED notTable

\* line 157: create_table().send().await? failed before reaching the store
CreateTableFails(c, e) ==
    /\ cpc[c] = "await_create"
    /\ cresults' = [cresults EXCEPT ![c] = Append(@, Finished(Err(e), tables, treqs))]
    /\ cpc' = [cpc EXCEPT ![c] = "idle"]
    /\ UNCHANGED <<tables, tdesc, treqs>>
    /\ UNCHANGED notTable

\* The accounts the calls start on: any of the other tables, and the table
\* itself absent or present with either key schema.
Descriptors ==
    { TableNew(TableName, PartitionKeyName, sk) : sk \in {None, Some(SortKeyName)} }

Accounts ==
    { [n \in others \cup mine |->
         IF n = TableName THEN Described(KeySchemaOf(d))
         ELSE Described(<<[attribute_name |-> "id", key_type |-> "HASH"]>>)] :
        others \in SUBSET (Range(NameOrder) \ {TableName}),
        mine \in {{}, {TableName}}, d \in Descriptors }

InitTable ==
    /\ tables \in Accounts
    /\ tdesc \in Descriptors
    /\ cpc = [c \in Callers |-> "idle"]
    /\ cresults = [c \in Callers |-> <<>>]
    /\ treqs = <<>>
    /\ table = <<>>
    /\ RetryIdle /\ ScanIdle /\ QueryIdle
    /\ CrudIdle
    /\ ItemIdle
    /\ CliIdle
    /\ HandlerIdle

NextTable ==
    \/ \E c \in Callers : CreateIfNotExistsCall(c)
    \/ \E c \in Callers : ListTablesReturns(c)
    \/ \E c \in Callers, e \in ServiceErrors : ListTablesFails(c, e)
    \/ \E c \in Callers : CreateTableReturns(c)
    \/ \E c \in Callers, e \in ServiceErrors : CreateTableFails(c, e)

SpecTable == InitTable /\ [][NextTable]_vars

(***************************************************************************)
(* Properties of create_table_if_not_exists.                               *)
(***************************************************************************)
\* Caller c made two calls in a row, alone, the store answering every
\* request of the second call, and the first call succeeded.
TwiceInARow(c) ==
    /\ Len(cresults[c]) = 2
    /\ \A o \in Callers \ {c} : cresults[o] = <<>> /\ cpc[o] = "idle"
    /\ cresults[c][1].res.ok
    /\ cresults[c][2].res \notin { Err(e) : e \in ServiceErrors }

IdempotentFor(c) ==
    /\ cresults[c][2].res = Ok("None")
    /\ cresults[c][2].creates = cresults[c][1].creates
    /\ cresults[c][2].tables = cresults[c][1].tables

\* C10: called twice in a row by one caller, the second call sends no create
\* request, returns None without error and leaves the tables and the key
\* schema as the first call left them.
C10_Idempotent == \A c \in Callers : TwiceInARow(c) => IdempotentFor(c)

\* The same, for accounts whose table names all fit on the first page of
\* list_tables: there the second call does find the table.
IdempotentOnFirstPage ==
    \A c \in Callers :
        (TwiceInARow(c) /\ Cardinality(DOMAIN tables) <= ListTablesPageSize)
            => IdempotentFor(c)

\* The create_table_if_not_exists calls caller c has started.
CallsBy(c) ==
    Len(SelectSeq(treqs, LAMBDA r : r.op = "list_tables" /\ r.caller = c))

\* No request so far was failed by the service itself.
NoServiceError ==
    \A c \in Callers : \A i \in 1..Len(cresults[c]) :
        cresults[c][i].res \notin { Err(e) : e \in ServiceErrors }

\* C11: two callers each call create_table_if_not_exists once for the same
\* table, in any interleaving: no call returns an error and at most one
\* create-table request reaches the store.
C11_ConcurrentSafe ==
    (/\ \A c \in Callers : CallsBy(c) <= 1
     /\ Cardinality(DOMAIN tables) <= ListTablesPageSize
     /\ NoServiceError) =>
        /\ \A c \in Callers : \A i \in 1..Len(cresults[c]) : cresults[c][i].res.ok
        /\ Len(CreateRequests) <= 1

(***************************************************************************)
(* Properties of the requests query_simple and query_flexible build.       *)
(***************************************************************************)
SortOp == qargs[1].sort_key_condition[1][2]
SimpleSent == qfn = "query_simple" /\ qrequests # <<>>

\* C12: for a sort-key operator among =, <, <=, >, >=, query_simple sends the
\* key condition '#pk = :pkval AND #sk <op> :skval' with the names #pk and #sk
\* bound to the key names and :pkval, :skval bound to the supplied values;
\* with no sort-key condition it sends exactly '#pk = :pkval'.
C12_SimpleKeyCondition ==
    SimpleSent =>
        LET a == qargs[1]
            sk == a.sort_key_condition
            req == qrequests[1]
            names == req.expression_attribute_names
            values == req.expression_attribute_values
        IN  /\ sk = None =>
                /\ req.key_condition_expression = <<"#pk", "=", ":pkval">>
                /\ names = Some("#pk" :> a.partition_key[1])
                /\ values # None /\ ":pkval" \in DOMAIN values[1]
                /\ values[1][":pkval"] = a.partition_key[2]
            /\ (sk # None /\ sk[1][2] \in CompareOps) =>
                /\ req.key_condition_expression =
                     <<"#pk", "=", ":pkval", "AND", "#sk", sk[1][2], ":skval">>
                /\ names = Some("#pk" :> a.partition_key[1] @@ "#sk" :> sk[1][1])
                /\ values # None /\ {":pkval", ":skval"} \subseteq DOMAIN values[1]
                /\ values[1][":pkval"] = a.partition_key[2]
                /\ values[1][":skval"] = sk[1][3]

C12_Witness ==
    /\ SimpleSent /\ qpc = "done" /\ qresult.ok
    /\ qargs[1].sort_key_condition # None /\ SortOp = ">="
    /\ qargs[1].filter_expression # None
    /\ qresult.val.items # <<>>

ValuePlaceholders == {":pkval", ":skval", ":skval2", ":min_price"}

\* C13: with the operator BETWEEN, the key condition query_simple sends has
\* two value placeholders for the sort-key range and the values map of the
\* request binds both.
C13_BetweenTwoPlaceholders ==
    (SimpleSent /\ qargs[1].sort_key_condition # None /\ SortOp = "BETWEEN") =>
        LET req == qrequests[1]
            kce == req.key_condition_expression
            range == { kce[i] : i \in { j \in 6..Len(kce) : kce[j] \in ValuePlaceholders } }
        IN  /\ Cardinality(range) = 2
            /\ range \subseteq DOMAIN MapOf(req.expression_attribute_values)

\* C14: with an operator outside =, <, <=, >, >=, BETWEEN, query_simple fails
\* with an 'unsupported condition' error and sends no request.
C14_UnsupportedRejected ==
    (/\ qfn = "query_simple" /\ qargs[1].sort_key_condition # None
     /\ SortOp \notin CompareOps \cup {"BETWEEN"}) =>
        /\ qrequests = <<>>
        /\ qpc # "call" => qresult = Err("unsupported condition")

\* A limit that is not greater than 0 means no limit.
EffectiveLimit(l) == IF l # None /\ l[1] > 0 THEN l ELSE None

\* C15: the requests of query_flexible and scan_paginated carry each optional
\* part exactly as the caller supplied it, and no limit when the supplied
\* limit is not greater than 0.
C15_OptionalParts ==
    /\ (qfn = "query_flexible" /\ qrequests # <<>>) =>
        LET p == qparams[1]
            r == qrequests[1]
        IN  /\ r.filter_expression = p.filter_expression
            /\ r.projection_expression = p.projection_expression
            /\ r.scan_index_forward = p.scan_index_forward
            /\ r.index_name = p.index_name
            /\ r.exclusive_start_key = None
            /\ r.limit = EffectiveLimit(p.limit)
    /\ fn = "scan_paginated_items" =>
        \A i \in 1..Len(requests) :
            /\ requests[i].filter_expression = filter_expression
            /\ requests[i].projection_expression = projection_expression
            /\ requests[i].exclusive_start_key =
                 (IF i = 1 THEN None ELSE responses[i - 1].last_evaluated_key)
            /\ requests[i].limit = EffectiveLimit(limit)

(***************************************************************************)
(* Item, src/dynamodb/item.rs.  An f64 is written in hundredths; to_string *)
(* and parse are the conversions between an f64 and its decimal text.      *)
(***************************************************************************)
F64s == {500, 4200, 59999, 64999}

\* f64::to_string: the shortest decimal text that parses back to the value
F64ToString(x) ==
    CASE x = 500 -> "5"
      [] x = 4200 -> "42"
      [] x = 59999 -> "599.99"
      [] x = 64999 -> "649.99"

\* str::parse::<f64>().ok(): the value a decimal text denotes, if it is one
ParseF64(text) ==
    IF \E x \in F64s : F64ToString(x) = text
    THEN Some(CHOOSE x \in F64s : F64ToString(x) = text)
    ELSE None

\* AttributeValue::S(..) and AttributeValue::N(..)
AttributeValueS(v) == [t |-> "S", v |-> v]
AttributeValueN(v) == [t |-> "N", v |-> v]

\* Item::new(), lines 41-43
ItemNew == EmptyMap

\* Item::set_string, lines 56-60
SetString(item, key, value) == Insert(item, key, AttributeValueS(value))

SetNumberAsString(item, key, value) ==
    Insert(item, key, AttributeValueS(F64ToString(value)))

\* Item::set_number, lines 65-69
SetNumber(item, key, value) == Insert(item, key, AttributeValueN(F64ToString(value)))

\* Item::get_string, lines 75-77: attributes.get(key).and_then(as_s().ok())
GetString(item, key) ==
    IF key \in DOMAIN item /\ item[key].t = "S" THEN Some(item[key].v) ELSE None

\* Item::get_number, lines 83-88: get(key), as_n().ok(), parse().ok()
GetNumber(item, key) ==
    IF key \in DOMAIN item /\ item[key].t = "N" THEN ParseF64(item[key].v) ELSE None

(***************************************************************************)
(* The store's items.  A read sees every write the store has answered.     *)
(***************************************************************************)
PriceAttribute == "price"
StockAttribute == "stock"
KeyAttributes == {PartitionKeyName, SortKeyName}
Products == {"Smartphone", "Laptop"}

\* The key of an item: its key attributes.
KeyOf(item) == [a \in KeyAttributes \cap DOMAIN item |-> item[a]]

\* An update expression the store accepts: SET and one or more assignments
\* '#name = :value' separated by commas; the number of assignments, 0 when
\* the expression does not parse.
Assignments(expr) ==
    IF /\ Len(expr) >= 4 /\ Len(expr) % 4 = 0 /\ expr[1] = "SET"
       /\ \A j \in 1..(Len(expr) \div 4) :
            /\ expr[4 * j - 1] = "="
            /\ j > 1 => expr[4 * j - 3] = ","
    THEN Len(expr) \div 4 ELSE 0

\* The store rejects an update whose expression does not parse, that uses a
\* placeholder the maps do not define or defines one it does not use, that
\* sets an attribute twice or sets a key attribute.
UpdateValid(req) ==
    LET expr == req.update_expression
        n == Assignments(expr)
        names == MapOf(req.expression_attribute_names)
        values == MapOf(req.expression_attribute_values)
    IN  /\ n >= 1
        /\ { expr[4 * j - 2] : j \in 1..n } = DOMAIN names
        /\ { expr[4 * j] : j \in 1..n } = DOMAIN values
        /\ \A i, j \in 1..n : names[expr[4 * i - 2]] = names[expr[4 * j - 2]] => i = j
        /\ \A j \in 1..n : names[expr[4 * j - 2]] \notin KeyAttributes
        /\ DOMAIN req.key = KeyAttributes

\* The item an accepted update leaves: the stored item, or the key alone when
\* none is stored, with every assigned attribute set.
Updated(req) ==
    LET expr == req.update_expression
        n == Assignments(expr)
        names == MapOf(req.expression_attribute_names)
        values == MapOf(req.expression_attribute_values)
        base == IF req.key \in DOMAIN stored THEN stored[req.key] ELSE req.key
        set == { names[expr[4 * j - 2]] : j \in 1..n }
        valueOf(a) ==
            values[expr[4 * (CHOOSE j \in 1..n : names[expr[4 * j - 2]] = a)]]
    IN  [a \in DOMAIN base \cup set |-> IF a \in set THEN valueOf(a) ELSE base[a]]

\* The store rejects a put whose item lacks a key attribute, and a get or
\* delete whose key is not exactly the key attributes.
PutValid(req) == KeyAttributes \subseteq DOMAIN req.item
KeyValid(req) == DOMAIN req.key = KeyAttributes

Remove(map, k) == [x \in DOMAIN map \ {k} |-> map[x]]

(***************************************************************************)
(* DynamoDb::put_item / get_item / update_item / delete_item,              *)
(* src/dynamodb/client.rs:194-263.                                         *)
(***************************************************************************)
PutItemInputKeyOnly(name, item) ==
    [op |-> "put_item", table_name |-> name, item |-> KeyOf(item)]

\* lines 195-199: put_item().table_name(..).set_item(Some(item.attributes))
PutItemInput(name, item) == [op |-> "put_item", table_name |-> name, item |-> item]

\* lines 207-211: get_item().table_name(..).set_key(Some(key.attributes))
GetItemInput(name, key) == [op |-> "get_item", table_name |-> name, key |-> key]

\* line 215: Ok(response.item.map(|attrs| Item { attributes: attrs }))
GetItemOutput(resp) == Ok(resp.item)

\* lines 254-258: delete_item().table_name(..).set_key(Some(key.attributes))
DeleteItemInput(name, key) == [op |-> "delete_item", table_name |-> name, key |-> key]

\* lines 225-226: format!("#attr{}", i) and format!(":val{}", i)
Placeholder(i) == "#attr" \o ToString(i)
ValuePlaceholder(i) == ":val" \o ToString(i)

\* lines 224-236: the loop over updates.attributes.iter().enumerate(); `order`
\* is the order the HashMap iterates in, the i-th attribute getting index i-1
RECURSIVE UpdateExpression(_)
UpdateExpression(n) ==
    IF n = 0 THEN <<>>
    ELSE UpdateExpression(n - 1) \o (IF n > 1 THEN <<",">> ELSE <<>>)
         \o <<Placeholder(n - 1), "=", ValuePlaceholder(n - 1)>>

UpdateItemInputFirstValue(name, key, updates, order) ==
    [op |-> "update_item", table_name |-> name, key |-> key,
     update_expression |-> <<"SET">> \o UpdateExpression(Len(order)),
     expression_attribute_names |->
        Some([ph \in { Placeholder(i - 1) : i \in 1..Len(order) } |->
                order[CHOOSE i \in 1..Len(order) : Placeholder(i - 1) = ph]]),
     expression_attribute_values |->
        Some([ph \in { ValuePlaceholder(i - 1) : i \in 1..Len(order) } |->
                updates[order[1]]])]

\* lines 220-246: the update request
UpdateItemInput(name, key, updates, order) ==
    [op |-> "update_item", table_name |-> name, key |-> key,
     update_expression |-> <<"SET">> \o UpdateExpression(Len(order)),
     expression_attribute_names |->
        Some([ph \in { Placeholder(i - 1) : i \in 1..Len(order) } |->
                order[CHOOSE i \in 1..Len(order) : Placeholder(i - 1) = ph]]),
     expression_attribute_values |->
        Some([ph \in { ValuePlaceholder(i - 1) : i \in 1..Len(order) } |->
                updates[order[CHOOSE i \in 1..Len(order) : ValuePlaceholder(i - 1) = ph]]])]

\* The orders a HashMap with these keys can iterate in.
Orders(map) ==
    { q \in [1..Cardinality(DOMAIN map) -> DOMAIN map] :
        \A i, j \in DOMAIN q : q[i] = q[j] => i = j }

ItemErrors == {"ServiceUnavailable"}
InFlight == ireqs[1]

\* lines 194-199: put_item sends its request
PutItemCall(item) ==
    /\ ipc = "idle" /\ Len(writes) < MaxWrites
    /\ ifn' = "put_item" /\ iargs' = Some([item |-> item])
    /\ ireqs' = <<PutItemInput(TableName, item)>>
    /\ ipc' = "await"
    /\ UNCHANGED <<stored, iresult, writes>>
    /\ UNCHANGED notCrud

\* lines 199-203: the store has replaced the item; Ok(())
PutItemReturns ==
    /\ ipc = "await" /\ ifn = "put_item" /\ PutValid(InFlight)
    /\ stored' = Insert(stored, KeyOf(InFlight.item), InFlight.item)
    /\ writes' = Append(writes, [op |-> ifn, args |-> iargs[1]])
    /\ iresult' = Ok("()")
    /\ ipc' = "idle"
    /\ UNCHANGED <<ifn, iargs, ireqs>>
    /\ UNCHANGED notCrud

\* lines 206-212: get_item sends its request
GetItemCall(key) ==
    /\ ipc = "idle"
    /\ ifn' = "get_item" /\ iargs' = Some([key |-> key])
    /\ ireqs' = <<GetItemInput(TableName, key)>>
    /\ ipc' = "await"
    /\ UNCHANGED <<stored, iresult, writes>>
    /\ UNCHANGED notCrud

\* lines 212-215: the store answers with the item, if it holds one
GetItemReturns ==
    /\ ipc = "await" /\ ifn = "get_item" /\ KeyValid(InFlight)
    /\ iresult' = GetItemOutput(
            [item |-> IF InFlight.key \in DOMAIN stored
                      THEN Some(stored[InFlight.key]) ELSE None])
    /\ ipc' = "idle"
    /\ UNCHANGED <<stored, ifn, iargs, ireqs, writes>>
    /\ UNCHANGED notCrud

\* lines 219-246: update_item builds and sends its request
UpdateItemCall(key, updates, order) ==
    /\ ipc = "idle" /\ Len(writes) < MaxWrites
    /\ ifn' = "update_item" /\ iargs' = Some([key |-> key, updates |-> updates])
    /\ ireqs' = <<UpdateItemInput(TableName, key, updates, order)>>
    /\ ipc' = "await"
    /\ UNCHANGED <<stored, iresult, writes>>
    /\ UNCHANGED notCrud

\* lines 246-250: the store has applied the update; Ok(())
UpdateItemReturns ==
    /\ ipc = "await" /\ ifn = "update_item" /\ UpdateValid(InFlight)
    /\ stored' = Insert(stored, InFlight.key, Updated(InFlight))
    /\ writes' = Append(writes, [op |-> ifn, args |-> iargs[1]])
    /\ iresult' = Ok("()")
    /\ ipc' = "idle"
    /\ UNCHANGED <<ifn, iargs, ireqs>>
    /\ UNCHANGED notCrud

\* lines 253-258: delete_item sends its request
DeleteItemCall(key) ==
    /\ ipc = "idle" /\ Len(writes) < MaxWrites
    /\ ifn' = "delete_item" /\ iargs' = Some([key |-> key])
    /\ ireqs' = <<DeleteItemInput(TableName, key)>>
    /\ ipc' = "await"
    /\ UNCHANGED <<stored, iresult, writes>>
    /\ UNCHANGED notCrud

\* lines 258-262: the store holds no item with the key any more; Ok(())
DeleteItemReturns ==
    /\ ipc = "await" /\ ifn = "delete_item" /\ KeyValid(InFlight)
    /\ stored' = Remove(stored, InFlight.key)
    /\ writes' = Append(writes, [op |-> ifn, args |-> iargs[1]])
    /\ iresult' = Ok("()")
    /\ ipc' = "idle"
    /\ UNCHANGED <<ifn, iargs, ireqs>>
    /\ UNCHANGED notCrud

\* The request is one the store rejects.
Rejected(req) ==
    CASE req.op = "put_item" -> ~PutValid(req)
      [] req.op = "update_item" -> ~UpdateValid(req)
      [] OTHER -> ~KeyValid(req)

\* send().await? -- the store rejected the request
ItemRequestRejected ==
    /\ ipc = "await" /\ Rejected(InFlight)
    /\ iresult' = Err("ValidationException")
    /\ ipc' = "idle"
    /\ UNCHANGED <<stored, ifn, iargs, ireqs, writes>>
    /\ UNCHANGED notCrud

\* send().await? -- the request failed; the store is as it was
ItemRequestFails(e) ==
    /\ ipc = "await"
    /\ iresult' = Err(e)
    /\ ipc' = "idle"
    /\ UNCHANGED <<stored, ifn, iargs, ireqs, writes>>
    /\ UNCHANGED notCrud

\* The keys, items and update maps the callers pass (src/tests.rs:217-265).
ItemKeys ==
    { SetString(SetString(ItemNew, PartitionKeyName, PartitionValue), SortKeyName, p) :
        p \in Products }
PutItems == { SetNumber(k, PriceAttribute, x) : k \in ItemKeys, x \in {59999, 64999} }
UpdateMaps ==
    { ItemNew,
      SetNumber(ItemNew, PriceAttribute, 64999),
      SetNumber(SetNumber(ItemNew, PriceAttribute, 59999), StockAttribute, 500) }

InitCrud ==
    /\ stored = EmptyMap /\ ifn = "none" /\ iargs = None /\ ipc = "idle"
    /\ iresult = NoResult /\ ireqs = <<>> /\ writes = <<>>
    /\ table = <<>>
    /\ RetryIdle /\ ScanIdle /\ QueryIdle /\ TableIdle
    /\ ItemIdle
    /\ CliIdle
    /\ HandlerIdle

NextCrud ==
    \/ \E item \in PutItems : PutItemCall(item)
    \/ PutItemReturns
    \/ \E key \in ItemKeys : GetItemCall(key)
    \/ GetItemReturns
    \/ \E key \in ItemKeys, updates \in UpdateMaps :
            \E order \in Orders(updates) : UpdateItemCall(key, updates, order)
    \/ UpdateItemReturns
    \/ \E key \in ItemKeys : DeleteItemCall(key)
    \/ DeleteItemReturns
    \/ ItemRequestRejected
    \/ \E e \in ItemErrors : ItemRequestFails(e)

SpecCrud == InitCrud /\ [][NextCrud]_vars

(***************************************************************************)
(* Properties of the item calls.                                           *)
(***************************************************************************)
\* b's attributes over a's
Merge(a, b) == b @@ a

\* What the writes `ws` leave for key k, an update of a key that holds no
\* item leaving `fresh(k)` updated.
RECURSIVE Left(_, _, _)
Left(ws, k, upsert) ==
    IF ws = <<>> THEN None
    ELSE LET prev == Left(SubSeq(ws, 1, Len(ws) - 1), k, upsert)
             w == ws[Len(ws)]
         IN  CASE w.op = "put_item" ->
                    IF KeyOf(w.args.item) = k THEN Some(w.args.item) ELSE prev
               [] w.op = "delete_item" -> IF w.args.key = k THEN None ELSE prev
               [] w.op = "update_item" ->
                    IF w.args.key # k THEN prev
                    ELSE IF prev # None THEN Some(Merge(prev[1], w.args.updates))
                    ELSE IF upsert THEN Some(Merge(k, w.args.updates))
                    ELSE None

GetReturned == ifn = "get_item" /\ ipc = "idle" /\ iresult.ok

\* C16: get_item returns the state the last successful write to the key
\* left: the last put as changed by later updates, and None when the key was
\* never put or its last write was delete_item.
C16_LastWriteWins ==
    GetReturned => iresult.val = Left(writes, iargs[1].key, FALSE)

\* C16 as amended: an update_item of a key that holds no item creates the
\* item from the key and the updated attributes.
C16_LastWriteWinsUpsert ==
    GetReturned => iresult.val = Left(writes, iargs[1].key, TRUE)

C16_Witness ==
    /\ GetReturned /\ Len(writes) = 3
    /\ writes[1].op = "put_item" /\ writes[2].op = "update_item"
    /\ writes[3].op = "delete_item" /\ writes[3].args.key # iargs[1].key
    /\ KeyOf(writes[1].args.item) = iargs[1].key /\ writes[2].args.key = iargs[1].key
    /\ GetNumber(writes[1].args.item, PriceAttribute) = Some(59999)
    /\ iresult.val # None
    /\ GetNumber(iresult.val[1], PriceAttribute) = Some(64999)

\* The placeholders of index 0, 1, 2, ... as the source formats them.
AttrPlaceholders == <<"#attr0", "#attr1", "#attr2">>
ValPlaceholders == <<":val0", ":val1", ":val2">>

\* C17: for an updates map with n attributes, update_item sends one request
\* whose expression is SET and n comma-separated assignments
\* '#attr_i = :val_i', i = 0..n-1, whose names map has exactly the entries
\* #attr_i and whose values map exactly the entries :val_i, #attr_i and
\* :val_i being bound to the name and value of the same attribute, and
\* every attribute of the map being covered exactly once.
C17_UpdateExpression ==
    (ifn = "update_item" /\ ireqs # <<>>) =>
        LET updates == iargs[1].updates
            n == Cardinality(DOMAIN updates)
            req == ireqs[1]
            expr == req.update_expression
            names == req.expression_attribute_names[1]
            values == req.expression_attribute_values[1]
        IN  /\ Len(ireqs) = 1
            /\ req.key = iargs[1].key
            /\ expr[1] = "SET"
            /\ Len(expr) = (IF n = 0 THEN 1 ELSE 4 * n)
            /\ \A i \in 1..n :
                /\ expr[4 * i - 2] = AttrPlaceholders[i]
                /\ expr[4 * i - 1] = "="
                /\ expr[4 * i] = ValPlaceholders[i]
                /\ i > 1 => expr[4 * i - 3] = ","
            /\ DOMAIN names = { AttrPlaceholders[i] : i \in 1..n }
            /\ DOMAIN values = { ValPlaceholders[i] : i \in 1..n }
            /\ \A i \in 1..n :
                /\ names[AttrPlaceholders[i]] \in DOMAIN updates
                /\ values[ValPlaceholders[i]] = updates[names[AttrPlaceholders[i]]]
            /\ \A a \in DOMAIN updates :
                Cardinality({ i \in 1..n : names[AttrPlaceholders[i]] = a }) = 1

C17_Witness ==
    /\ ifn = "update_item" /\ ipc = "idle" /\ iresult.ok
    /\ Cardinality(DOMAIN iargs[1].updates) = 2
    /\ ireqs[1].expression_attribute_names[1]["#attr0"] = StockAttribute
    /\ ireqs[1].expression_attribute_values[1][":val0"] = AttributeValueN("5")

(***************************************************************************)
(* Properties of scan with a filter.                                       *)
(***************************************************************************)
\* C18: whatever the table and the page split, scan with the filter
\* price > 25 returns exactly the items priced above 25, also when a page
\* holds no matching item and still carries a cursor: the loop goes on until
\* a response carries none.
C18_FilteredScan ==
    (fn = "scan" /\ filter_expression # None /\ spc = "done" /\ sresult.ok) =>
        /\ \A i \in 1..Len(table) :
            Cardinality({ j \in 1..Len(sresult.val) : sresult.val[j] = table[i] })
                = (IF table[i].price > 25 THEN 1 ELSE 0)
        /\ \A j \in 1..Len(sresult.val) : sresult.val[j].price > 25
        /\ Len(responses) = Len(requests)
        /\ Last(responses).last_evaluated_key = None
        /\ \A i \in 1..(Len(responses) - 1) : responses[i].last_evaluated_key # None

C18_Witness ==
    /\ fn = "scan" /\ filter_expression # None /\ spc = "done" /\ sresult.ok
    /\ Len(responses) >= 2
    /\ UnwrapOrDefault(responses[1].items) = <<>>
    /\ responses[1].last_evaluated_key # None
    /\ Len(sresult.val) = 2

(***************************************************************************)
(* Schema, src/dynamodb/schema.rs:58-76, and the accessors of Table,       *)
(* src/dynamodb/table.rs:71-102.                                           *)
(***************************************************************************)
\* Schema::new(), lines 60-64
SchemaNew == EmptyMap

\* Schema::add_field, lines 67-70: self.fields.insert(name.into(), field_type)
AddField(sch, name, field_type) == Insert(sch, name, field_type)

\* Schema::fields, lines 73-75
Fields(sch) == sch

\* Table::name, partition_key, sort_key, schema
Name(t) == t.name
PartitionKey(t) == t.partition_key
SortKey(t) == t.sort_key
TableSchema(t) == t.schema

(***************************************************************************)
(* Building an Item, a Schema and a Table (src/tests.rs:334-357).          *)
(***************************************************************************)
AttributeNames == {"key1", "key2"}
Strings == {"value1", "42"}
Numbers == {4200, 59999}
FieldNames == {"field1", "field2"}
FieldTypes == {"String", "Number"}
TableNames == {"test_table", TableName}
SortKeys == {None, Some("sort_key")}

Budget == Len(sets) + Len(added) < MaxSets

\* item = item.set_string(key, value)
ItemSetString(key, value) ==
    /\ Budget
    /\ attributes' = SetString(attributes, key, value)
    /\ sets' = Append(sets, [fn |-> "set_string", key |-> key, value |-> value])
    /\ UNCHANGED <<fields, added, tnew>>
    /\ UNCHANGED notItem

\* item = item.set_number(key, value)
ItemSetNumber(key, value) ==
    /\ Budget
    /\ attributes' = SetNumber(attributes, key, value)
    /\ sets' = Append(sets, [fn |-> "set_number", key |-> key, value |-> value])
    /\ UNCHANGED <<fields, added, tnew>>
    /\ UNCHANGED notItem

\* schema = schema.add_field(name, field_type)
SchemaAddField(name, field_type) ==
    /\ Budget
    /\ fields' = AddField(fields, name, field_type)
    /\ added' = Append(added, [name |-> name, field_type |-> field_type])
    /\ UNCHANGED <<attributes, sets, tnew>>
    /\ UNCHANGED notItem

\* let table = Table::new(name, partition_key, sort_key)
TableNewCall(name, partition_key, sort_key) ==
    /\ tnew = None
    /\ tnew' = Some([args |-> <<name, partition_key, sort_key>>,
                     table |-> TableNew(name, partition_key, sort_key)])
    /\ UNCHANGED <<attributes, sets, fields, added>>
    /\ UNCHANGED notItem

InitItem ==
    /\ attributes = ItemNew /\ sets = <<>>
    /\ fields = SchemaNew /\ added = <<>>
    /\ tnew = None
    /\ table = <<>>
    /\ RetryIdle /\ ScanIdle /\ QueryIdle /\ TableIdle /\ CrudIdle /\ CliIdle
    /\ HandlerIdle

NextItem ==
    \/ \E key \in AttributeNames, value \in Strings : ItemSetString(key, value)
    \/ \E key \in AttributeNames, value \in Numbers : ItemSetNumber(key, value)
    \/ \E name \in FieldNames, ty \in FieldTypes : SchemaAddField(name, ty)
    \/ \E name \in TableNames, sk \in SortKeys :
            TableNewCall(name, "partition_key", sk)

SpecItem == InitItem /\ [][NextItem]_vars

\* The last entry of log q that satisfies Test, if there is one.
LastOf(q, Test(_)) ==
    LET hits == { i \in 1..Len(q) : Test(q[i]) }
    IN  IF hits = {} THEN None
        ELSE Some(q[CHOOSE i \in hits : \A j \in hits : j <= i])

\* C19: get_string(k) is the value of the last set for k when that was a
\* set_string, get_number(k) is the value of the last set for k when that was
\* a set_number, and both are None otherwise; a Schema has one field per
\* name added, typed by the last add_field for the name; Table::new(n, pk,
\* sk) reports n, pk, sk and no schema.
C19_AccessorsRoundTrip ==
    /\ \A k \in AttributeNames :
        LET last == LastOf(sets, LAMBDA c : c.key = k)
        IN  /\ GetString(attributes, k) =
                 (IF last # None /\ last[1].fn = "set_string"
                  THEN Some(last[1].value) ELSE None)
            /\ GetNumber(attributes, k) =
                 (IF last # None /\ last[1].fn = "set_number"
                  THEN Some(last[1].value) ELSE None)
    /\ DOMAIN Fields(fields) = { added[i].name : i \in 1..Len(added) }
    /\ \A n \in DOMAIN Fields(fields) :
        Fields(fields)[n] = LastOf(added, LAMBDA c : c.name = n)[1].field_type
    /\ tnew # None =>
        /\ Name(tnew[1].table) = tnew[1].args[1]
        /\ PartitionKey(tnew[1].table) = tnew[1].args[2]
        /\ SortKey(tnew[1].table) = tnew[1].args[3]
        /\ TableSchema(tnew[1].table) = None

C19_Witness ==
    /\ Len(sets) = 2 /\ Len(added) = 1 /\ tnew # None
    /\ sets[1] = [fn |-> "set_string", key |-> "key1", value |-> "42"]
    /\ sets[2] = [fn |-> "set_number", key |-> "key1", value |-> 59999]
    /\ GetNumber(attributes, "key1") = Some(59999)
    /\ GetString(attributes, "key1") = None
    /\ SortKey(tnew[1].table) = Some("sort_key")

(***************************************************************************)
(* run, src/command_line.rs:34-55: the command loop.  A handler is the     *)
(* environment of the loop: it reads further lines through prompt, makes   *)
(* store requests and returns Ok or an error.                              *)
(***************************************************************************)
Commands ==
    {"info", "put", "get", "update", "delete", "query", "scan", "list",
     "query_flexible", "query_simple", "scan_paginated", "delete_table", "exit"}

\* The lines standard input can hold (without the line end); the empty line
\* is also what read_line leaves at end of input.
Lines == Commands \cup {"", " ", " exit ", "EXIT", "help"}

\* prompt, lines 434-445: input.trim().to_string()
Trim(line) ==
    CASE line = " exit " -> "exit"
      [] line = " " -> ""
      [] OTHER -> line

UnknownMessage == "Unknown command. Please try again."

\* line 36: let command = prompt(..)?  -- a line is read
Prompt(line) ==
    /\ lpc = "prompt" /\ nlines < MaxLines
    /\ command' = Trim(line)
    /\ nlines' = nlines + 1
    /\ lpc' = "match"
    /\ UNCHANGED <<stdout, handler, ndispatched, srequests, run_result>>
    /\ UNCHANGED notCli

\* line 36: prompt(..)? -- reading standard input failed
PromptFails(e) ==
    /\ lpc = "prompt"
    /\ run_result' = Err(e)
    /\ lpc' = "done"
    /\ UNCHANGED <<command, nlines, stdout, handler, ndispatched, srequests>>
    /\ UNCHANGED notCli

\* lines 38-49: the arm of a command calls its handler
Dispatch ==
    /\ lpc = "match" /\ command \in Commands \ {"exit"}
    /\ handler' = command
    /\ ndispatched' = ndispatched + 1
    /\ lpc' = "handler"
    /\ UNCHANGED <<command, nlines, stdout, srequests, run_result>>
    /\ UNCHANGED notCli

ExitArmContinues ==
    /\ lpc = "match" /\ command = "exit"
    /\ lpc' = "prompt"
    /\ UNCHANGED <<command, nlines, stdout, handler, ndispatched, srequests,
                   run_result>>
    /\ UNCHANGED notCli

\* lines 50 and 54: "exit" => break, then Ok(())
ExitArm ==
    /\ lpc = "match" /\ command = "exit"
    /\ run_result' = Ok("()")
    /\ lpc' = "done"
    /\ UNCHANGED <<command, nlines, stdout, handler, ndispatched, srequests>>
    /\ UNCHANGED notCli

\* line 51: _ => println!("Unknown command. Please try again.")
UnknownArm ==
    /\ lpc = "match" /\ command \notin Commands
    /\ stdout' = Append(stdout, UnknownMessage)
    /\ lpc' = "prompt"
    /\ UNCHANGED <<command, nlines, handler, ndispatched, srequests, run_result>>
    /\ UNCHANGED notCli

\* inside a handler: a further prompt reads a line
HandlerPrompt(line) ==
    /\ lpc = "handler" /\ nlines < MaxLines
    /\ nlines' = nlines + 1
    /\ UNCHANGED <<lpc, command, stdout, handler, ndispatched, srequests, run_result>>
    /\ UNCHANGED notCli

\* inside a handler: a request is sent to the store
HandlerRequest ==
    /\ lpc = "handler" /\ srequests < MaxRequests
    /\ srequests' = srequests + 1
    /\ UNCHANGED <<lpc, command, nlines, stdout, handler, ndispatched, run_result>>
    /\ UNCHANGED notCli

\* lines 38-49: handler(..).await returned Ok(())
HandlerReturns ==
    /\ lpc = "handler"
    /\ lpc' = "prompt"
    /\ UNCHANGED <<command, nlines, stdout, handler, ndispatched, srequests,
                   run_result>>
    /\ UNCHANGED notCli

\* lines 38-49: handler(..).await? -- the handler failed and run returns
HandlerFails(e) ==
    /\ lpc = "handler"
    /\ run_result' = Err(e)
    /\ lpc' = "done"
    /\ UNCHANGED <<command, nlines, stdout, handler, ndispatched, srequests>>
    /\ UNCHANGED notCli

InitCli ==
    /\ lpc = "prompt" /\ command = "" /\ nlines = 0 /\ stdout = <<>>
    /\ handler = "none" /\ ndispatched = 0 /\ srequests = 0
    /\ run_result = NoResult
    /\ table = <<>>
    /\ RetryIdle /\ ScanIdle /\ QueryIdle /\ TableIdle /\ CrudIdle /\ ItemIdle
    /\ HandlerIdle

NextCli ==
    \/ \E line \in Lines : Prompt(line)
    \/ \E e \in Errors : PromptFails(e)
    \/ Dispatch
    \/ ExitArm
    \/ UnknownArm
    \/ \E line \in Lines : HandlerPrompt(line)
    \/ HandlerRequest
    \/ HandlerReturns
    \/ \E e \in Errors : HandlerFails(e)

SpecCli == InitCli /\ [][NextCli]_vars

\* C20: a command read that is not one of the thirteen prints the error,
\* makes no store request, dispatches nothing and leads back to the prompt;
\* 'exit' ends the loop with Ok(()); once run has returned, no handler is
\* dispatched and no request made.
C20_CliLoop ==
    [][/\ (lpc = "match" /\ command \notin Commands) =>
            /\ stdout' = Append(stdout, UnknownMessage)
            /\ srequests' = srequests /\ ndispatched' = ndispatched
            /\ lpc' = "prompt" /\ run_result' = NoResult
       /\ (lpc = "match" /\ command = "exit") =>
            /\ lpc' = "done" /\ run_result' = Ok("()")
            /\ srequests' = srequests /\ ndispatched' = ndispatched
       /\ lpc = "done" =>
            /\ lpc' = "done" /\ run_result' = run_result
            /\ srequests' = srequests /\ ndispatched' = ndispatched
            /\ handler' = handler]_vars

C20_Witness ==
    /\ lpc = "done" /\ run_result = Ok("()") /\ command = "exit"
    /\ nlines = 3 /\ Len(stdout) = 1 /\ ndispatched = 1 /\ srequests = 1

(***************************************************************************)
(* Properties of table_exists.                                             *)
(***************************************************************************)
\* C26: table_exists answers true exactly when the store holds a table of
\* the name, however many tables the account has: a call goes on to send a
\* create request only when the table does not exist, and returns None only
\* when it does.
C26_TableExistsExact ==
    [][\A c \in Callers :
        /\ (cpc[c] = "await_list" /\ cpc'[c] = "await_create") =>
                tdesc.name \notin DOMAIN tables
        /\ (/\ cpc[c] = "await_list" /\ cpc'[c] = "idle"
            /\ Last(cresults'[c]).res = Ok("None")) =>
                tdesc.name \in DOMAIN tables]_vars

(***************************************************************************)
(* Properties of failing page requests.                                    *)
(***************************************************************************)
\* C27: when a page request of scan_table or scan fails, the call returns
\* that error, none of the items gathered so far, and sends nothing more; it
\* returns Ok only when every page up to the one without a cursor succeeded,
\* and it ends as soon as a response carries no cursor.
C27_PageFailure ==
    fn \in {"scan_table", "scan"} =>
        /\ (spc = "done" /\ ~sresult.ok) =>
            /\ sresult.val \in Errors
            /\ Len(requests) = Len(responses) + 1
        /\ (spc = "done" /\ sresult.ok) =>
            /\ Len(requests) = Len(responses)
            /\ Last(responses).last_evaluated_key = None
            /\ \A i \in 1..(Len(responses) - 1) :
                    responses[i].last_evaluated_key # None
        /\ (/\ responses # <<>> /\ Len(requests) = Len(responses)
            /\ Last(responses).last_evaluated_key = None) => spc = "done"
        /\ spc # "done" => sresult = NoResult

C27_Witness ==
    /\ fn = "scan" /\ spc = "done" /\ ~sresult.ok
    /\ Len(responses) = 2 /\ Len(requests) = 3 /\ Len(items) = 2

\* C28: every update request update_item sends has at least one assignment
\* after SET; with an empty updates map no request with the bare 'SET ' is
\* sent.
C28_NoBareSet ==
    \A i \in 1..Len(ireqs) :
        ireqs[i].op = "update_item" => Assignments(ireqs[i].update_expression) >= 1

\* C30: whatever values map the caller of query_simple supplies, the request
\* binds :pkval to the partition-key value and, with a sort-key condition,
\* :skval to its value; every other supplied entry is passed on unchanged and
\* the names map holds only #pk and, with a sort-key condition, #sk.
C30_ReservedPlaceholders ==
    SimpleSent =>
        LET a == qargs[1]
            sk == a.sort_key_condition
            supplied == MapOf(a.expression_attribute_values)
            own == {":pkval"} \cup (IF sk = None THEN {} ELSE {":skval"})
            names == MapOf(qrequests[1].expression_attribute_names)
            values == MapOf(qrequests[1].expression_attribute_values)
        IN  /\ DOMAIN values = DOMAIN supplied \cup own
            /\ values[":pkval"] = a.partition_key[2]
            /\ sk # None => values[":skval"] = sk[1][3]
            /\ \A k \in DOMAIN supplied \ own : values[k] = supplied[k]
            /\ DOMAIN names = {"#pk"} \cup (IF sk = None THEN {} ELSE {"#sk"})

C30_Witness ==
    /\ SimpleSent /\ qpc = "done" /\ qresult.ok
    /\ qargs[1].expression_attribute_values = Some(StaleValues)
    /\ qargs[1].sort_key_condition # None /\ SortOp = "<="
    /\ qargs[1].partition_key[2] = PartitionValue
    /\ qresult.val.items # <<>>

(***************************************************************************)
(* Properties of the interactive paginated scan.                           *)
(***************************************************************************)
\* C24: scan_paginated_items asks for page i+1 only after page i was
\* printed, carried a cursor and the user answered y or Y; it ends with Ok
\* as soon as a page has no cursor or the answer is anything else; the pages
\* printed are numbered 1, 2, ... one per request, and on Ok as many pages
\* were printed as requests sent.
C24_LazyPages ==
    fn = "scan_paginated_items" =>
        /\ Len(printed) = Len(responses)
        /\ Len(requests) \in {Len(printed), Len(printed) + 1}
        /\ \A i \in 1..Len(printed) :
            /\ printed[i].page = i
            /\ printed[i].items = UnwrapOrDefault(responses[i].items)
        /\ \A i \in 2..Len(requests) :
            /\ i - 1 <= Len(printed) /\ i - 1 <= Len(answered)
            /\ responses[i - 1].last_evaluated_key # None
            /\ answered[i - 1] \in {"y", "Y"}
        /\ (spc = "done" /\ sresult.ok) =>
            /\ Len(requests) = Len(printed)
            /\ \/ Last(responses).last_evaluated_key = None
               \/ /\ Len(answered) = Len(printed)
                  /\ Last(answered) \notin {"y", "Y"}
        /\ (/\ responses # <<>> /\ Len(responses) = Len(requests)
            /\ \/ Last(responses).last_evaluated_key = None
               \/ /\ Len(answered) = Len(responses)
                  /\ Last(answered) \notin {"y", "Y"}) =>
                spc = "done" /\ sresult = Ok("unit")

C24_Witness ==
    /\ fn = "scan_paginated_items" /\ spc = "done" /\ sresult.ok
    /\ answered = <<"Y", "">>
    /\ Len(printed) = 2 /\ printed[2].page = 2
    /\ Last(responses).last_evaluated_key # None

\* C25: when the user presses Enter at the filter prompt of scan_items, the
\* requests sent carry no filter expression and the command gets every item
\* of the table, as list_items does.
C25_EnterMeansNoFilter ==
    (fn = "scan" /\ <<filter_expression, expression_attribute_names,
                      expression_attribute_values>> = ScanItemsArgs("")) =>
        /\ \A i \in 1..Len(requests) : requests[i].filter_expression = None
        /\ spc = "done" => sresult = Ok(table)

(***************************************************************************)
(* Properties of the key-condition builders.                               *)
(***************************************************************************)
\* The placeholders a key-condition builder inserts for the call at hand.
InsertedNames ==
    {"#pk"} \cup (IF qargs[1].sort_key_condition = None THEN {} ELSE {"#sk"})

InsertedValues ==
    {":pkval"}
    \cup (IF qargs[1].sort_key_condition = None THEN {} ELSE {":skval"})
    \cup (IF /\ qfn = "cli_query_items" /\ qargs[1].sort_key_condition # None
             /\ qargs[1].sort_key_condition[1][2] = "BETWEEN"
          THEN {":skval2"} ELSE {})

\* C23: in every request query_items, query_simple and the CLI query build,
\* each placeholder the builder inserted into the names and values maps is
\* referenced by the key condition of the request, and each placeholder the
\* key condition references is a key of its map.
C23_PlaceholdersReferenced ==
    qfn \in {"query_items", "query_simple", "cli_query_items"} =>
        \A i \in 1..Len(qrequests) :
            LET kce == qrequests[i].key_condition_expression
                names == MapOf(qrequests[i].expression_attribute_names)
                values == MapOf(qrequests[i].expression_attribute_values)
            IN  /\ InsertedNames \subseteq DOMAIN names
                /\ InsertedValues \subseteq DOMAIN values
                /\ InsertedNames \subseteq Range(kce)
                /\ InsertedValues \subseteq Range(kce)
                /\ Placeholders(kce, "#") \subseteq DOMAIN names
                /\ Placeholders(kce, ":") \subseteq DOMAIN values

(***************************************************************************)
(* The command handlers put_item, update_item, print_info and              *)
(* query_simple_items, src/command_line.rs.  A prompt returns the line     *)
(* typed or fails with an I/O error; `?` returns the error to the caller,  *)
(* unwrap() unwinds.                                                       *)
(***************************************************************************)
SchemaNotDefined == "Table schema not defined"
UnsupportedValueType == "Unsupported value type"
InvalidFloat == "invalid float literal"

\* Table::with_schema, src/dynamodb/table.rs:94-97
WithSchema(t, sch) == [t EXCEPT !.schema = Some(sch)]

\* The schema of tests.rs:74-79 with one more String field; the tables the
\* handlers are given: with and without sort key, with and without schema.
ProductSchema ==
    AddField(AddField(AddField(AddField(SchemaNew, PartitionKeyName, "String"),
                               SortKeyName, "String"),
                      PriceAttribute, "Number"),
             "brand", "String")

HandlerTables ==
    LET bare == { TableNew(TableName, PartitionKeyName, sk) :
                    sk \in {None, Some(SortKeyName)} }
    IN  bare \cup { WithSchema(t, ProductSchema) : t \in bare }

ValueLines == {"Laptop", "599.99"}
ValuePlaceholderLines == {":min_price", ":brand"}
ValueTypeLines == {"S", "N", "B"}

\* The key attributes of the table the handler is given.
KeyFields(t) ==
    {PartitionKey(t)} \cup (IF SortKey(t) = None THEN {} ELSE {SortKey(t)[1]})

\* put_item, lines 129-131: table.schema().ok_or_else(..)?
PutItemStartSendsFirst ==
    /\ hfn = "put_item" /\ hpc = "start"
    /\ IF TableSchema(htable) = None
       THEN /\ hresult' = Err(SchemaNotDefined) /\ hpc' = "done"
            /\ hreqs' = Append(hreqs, [op |-> "put_item", table_name |-> Name(htable),
                                       item |-> ItemNew])
            /\ UNCHANGED <<htodo, hitem>>
       ELSE /\ htodo' = DOMAIN Fields(TableSchema(htable)[1])
            /\ hitem' = ItemNew /\ hpc' = "fold"
            /\ UNCHANGED <<hresult, hreqs>>
    /\ UNCHANGED <<hfn, htable, hfield, hkey, hasked, htype, hinfo>>
    /\ UNCHANGED notHandler

PutItemStart ==
    /\ hfn = "put_item" /\ hpc = "start"
    /\ IF TableSchema(htable) = None
       THEN /\ hresult' = Err(SchemaNotDefined) /\ hpc' = "done"
            /\ UNCHANGED <<htodo, hitem>>
       ELSE /\ htodo' = DOMAIN Fields(TableSchema(htable)[1])
            /\ hitem' = ItemNew /\ hpc' = "fold"
            /\ UNCHANGED hresult
    /\ UNCHANGED <<hfn, htable, hfield, hkey, hasked, htype, hinfo, hreqs>>
    /\ UNCHANGED notHandler

\* put_item, lines 135-141: one turn of the fold over schema.fields(), in the
\* map's order: the prompt returned `line`; a Number that does not parse unwinds
PutItemField(f, line) ==
    /\ hfn = "put_item" /\ hpc = "fold" /\ f \in htodo
    /\ IF Fields(TableSchema(htable)[1])[f] = "String"
       THEN /\ hitem' = SetString(hitem, f, line)
            /\ htodo' = htodo \ {f} /\ UNCHANGED hpc
       ELSE IF ParseF64(line) # None
       THEN /\ hitem' = SetNumber(hitem, f, ParseF64(line)[1])
            /\ htodo' = htodo \ {f} /\ UNCHANGED hpc
       ELSE /\ hpc' = "panic" /\ UNCHANGED <<hitem, htodo>>
    /\ UNCHANGED <<hfn, htable, hfield, hkey, hasked, htype, hinfo, hreqs, hresult>>
    /\ UNCHANGED notHandler

\* put_item, line 143: ddb.put_item(table.name(), item)
PutItemSend ==
    /\ hfn = "put_item" /\ hpc = "fold" /\ htodo = {}
    /\ hreqs' = Append(hreqs, [op |-> "put_item", table_name |-> Name(htable),
                               item |-> hitem])
    /\ hpc' = "await"
    /\ UNCHANGED <<hfn, htable, htodo, hfield, hitem, hkey, hasked, htype, hinfo,
                   hresult>>
    /\ UNCHANGED notHandler

\* create_key_item, lines 355-365, called at update_item line 185: a key
\* prompt returned `line`
CreateKeyItemPrompt(line) ==
    /\ hfn = "update_item" /\ hpc \in {"start", "key"}
    /\ DOMAIN hkey # KeyFields(htable)
    /\ hkey' = IF PartitionKey(htable) \notin DOMAIN hkey
               THEN SetString(ItemNew, PartitionKey(htable), line)
               ELSE SetString(hkey, SortKey(htable)[1], line)
    /\ hpc' = "key"
    /\ UNCHANGED <<hfn, htable, htodo, hfield, hitem, hasked, htype, hinfo, hreqs,
                   hresult>>
    /\ UNCHANGED notHandler

\* create_update_item, lines 379-382: table.schema().ok_or_else(..)?
CreateUpdateItemStart ==
    /\ hfn = "update_item" /\ hpc = "key" /\ DOMAIN hkey = KeyFields(htable)
    /\ IF TableSchema(htable) = None
       THEN /\ hresult' = Err(SchemaNotDefined) /\ hpc' = "done"
            /\ UNCHANGED <<htodo, hitem>>
       ELSE /\ htodo' = DOMAIN Fields(TableSchema(htable)[1])
            /\ hitem' = ItemNew /\ hpc' = "fields"
            /\ UNCHANGED hresult
    /\ UNCHANGED <<hfn, htable, hfield, hkey, hasked, htype, hinfo, hreqs>>
    /\ UNCHANGED notHandler

\* create_update_item, lines 385-391: a key field is passed over unprompted
CreateUpdateItemSkipKey(f) ==
    /\ hfn = "update_item" /\ hpc = "fields" /\ f \in htodo
    /\ f \in KeyFields(htable)
    /\ htodo' = htodo \ {f}
    /\ UNCHANGED <<hfn, htable, hpc, hfield, hitem, hkey, hasked, htype, hinfo,
                   hreqs, hresult>>
    /\ UNCHANGED notHandler

CreateUpdateItemAskAnyField(f, a) ==
    /\ hfn = "update_item" /\ hpc = "fields" /\ f \in htodo
    /\ hasked' = Append(hasked, [field |-> f, answer |-> a])
    /\ htodo' = htodo \ {f}
    /\ IF ToLowercase(a) = "y"
       THEN hpc' = "value" /\ hfield' = Some(f)
       ELSE UNCHANGED <<hpc, hfield>>
    /\ UNCHANGED <<hfn, htable, hitem, hkey, htype, hinfo, hreqs, hresult>>
    /\ UNCHANGED notHandler

\* create_update_item, lines 385-392: "Update {}? (y/n)" for a field that is
\* no key, answered `a`
CreateUpdateItemAsk(f, a) ==
    /\ hfn = "update_item" /\ hpc = "fields" /\ f \in htodo
    /\ f \notin KeyFields(htable)
    /\ hasked' = Append(hasked, [field |-> f, answer |-> a])
    /\ htodo' = htodo \ {f}
    /\ IF ToLowercase(a) = "y"
       THEN hpc' = "value" /\ hfield' = Some(f)
       ELSE UNCHANGED <<hpc, hfield>>
    /\ UNCHANGED <<hfn, htable, hitem, hkey, htype, hinfo, hreqs, hresult>>
    /\ UNCHANGED notHandler

\* create_update_item, lines 393-397: the new value typed is `line`; a Number
\* that does not parse is returned as the error
CreateUpdateItemValue(line) ==
    /\ hfn = "update_item" /\ hpc = "value"
    /\ LET f == hfield[1]
       IN  IF Fields(TableSchema(htable)[1])[f] = "String"
           THEN /\ hitem' = SetString(hitem, f, line)
                /\ hpc' = "fields" /\ UNCHANGED hresult
           ELSE IF ParseF64(line) # None
           THEN /\ hitem' = SetNumber(hitem, f, ParseF64(line)[1])
                /\ hpc' = "fields" /\ UNCHANGED hresult
           ELSE /\ hresult' = Err(InvalidFloat) /\ hpc' = "done"
                /\ UNCHANGED hitem
    /\ hfield' = None
    /\ UNCHANGED <<hfn, htable, htodo, hkey, hasked, htype, hinfo, hreqs>>
    /\ UNCHANGED notHandler

\* update_item, line 187: ddb.update_item(table.name(), key, updates)
UpdateItemSend ==
    /\ hfn = "update_item" /\ hpc = "fields" /\ htodo = {}
    /\ hreqs' = Append(hreqs, [op |-> "update_item", table_name |-> Name(htable),
                               key |-> hkey, updates |-> hitem])
    /\ hpc' = "await"
    /\ UNCHANGED <<hfn, htable, htodo, hfield, hitem, hkey, hasked, htype, hinfo,
                   hresult>>
    /\ UNCHANGED notHandler

\* print_info, line 77: ddb.describe_table(table.name())
PrintInfoDescribe ==
    /\ hfn = "print_info" /\ hpc = "start"
    /\ hreqs' = Append(hreqs, [op |-> "describe_table", table_name |-> Name(htable)])
    /\ hpc' = "await_describe"
    /\ UNCHANGED <<hfn, htable, htodo, hfield, hitem, hkey, hasked, htype, hinfo,
                   hresult>>
    /\ UNCHANGED notHandler

\* print_info, lines 77-78: the output arrives, with or without a table
\* description, and scan_table is called
PrintInfoDescribed(d) ==
    /\ hfn = "print_info" /\ hpc = "await_describe"
    /\ hinfo' = Some([table |-> d])
    /\ hreqs' = Append(hreqs, [op |-> "scan_table", table_name |-> Name(htable)])
    /\ hpc' = "await_scan"
    /\ UNCHANGED <<hfn, htable, htodo, hfield, hitem, hkey, hasked, htype, hresult>>
    /\ UNCHANGED notHandler

\* print_info, lines 80-112: the items arrive and the report is printed;
\* line 109: table_info.table().unwrap()
PrintInfoScanned ==
    /\ hfn = "print_info" /\ hpc = "await_scan"
    /\ IF hinfo[1].table = None
       THEN hpc' = "panic" /\ UNCHANGED hresult
       ELSE hpc' = "done" /\ hresult' = Ok("()")
    /\ UNCHANGED <<hfn, htable, htodo, hfield, hitem, hkey, hasked, htype, hinfo,
                   hreqs>>
    /\ UNCHANGED notHandler

\* query_simple_items, lines 528-533: the partition-key value is typed
QuerySimpleItemsKeyPrompt(line) ==
    /\ hfn = "query_simple_items" /\ hpc = "start"
    /\ hkey' = SetString(ItemNew, PartitionKey(htable), line)
    /\ hpc' = IF SortKey(htable) = None THEN "filter" ELSE "sort"
    /\ UNCHANGED <<hfn, htable, htodo, hfield, hitem, hasked, htype, hinfo, hreqs,
                   hresult>>
    /\ UNCHANGED notHandler

\* query_simple_items, lines 535-550: the condition and the value of the sort
\* key are typed
QuerySimpleItemsSortPrompts(line) ==
    /\ hfn = "query_simple_items" /\ hpc = "sort"
    /\ hkey' = SetString(hkey, SortKey(htable)[1], line)
    /\ hpc' = "filter"
    /\ UNCHANGED <<hfn, htable, htodo, hfield, hitem, hasked, htype, hinfo, hreqs,
                   hresult>>
    /\ UNCHANGED notHandler

\* query_simple_items, lines 552-556: the filter and the limit are typed and
\* get_expression_attribute_values starts with an empty map (line 464)
QuerySimpleItemsFilterLimit ==
    /\ hfn = "query_simple_items" /\ hpc = "filter"
    /\ hitem' = EmptyMap
    /\ hpc' = "values"
    /\ UNCHANGED <<hfn, htable, htodo, hfield, hkey, hasked, htype, hinfo, hreqs,
                   hresult>>
    /\ UNCHANGED notHandler

\* get_expression_attribute_values, lines 465-481: one turn of the loop with
\* a placeholder, a value type and a value typed
GetExpressionAttributeValuesEntry(ph, ty, line) ==
    /\ hfn = "query_simple_items" /\ hpc = "values"
    /\ htype' = Some(ty)
    /\ IF ty = "S"
       THEN hitem' = Insert(hitem, ph, AttributeValueS(line)) /\ UNCHANGED <<hpc, hresult>>
       ELSE IF ty = "N"
       THEN hitem' = Insert(hitem, ph, AttributeValueN(line)) /\ UNCHANGED <<hpc, hresult>>
       ELSE /\ hresult' = Err(UnsupportedValueType) /\ hpc' = "done"
            /\ UNCHANGED hitem
    /\ UNCHANGED <<hfn, htable, htodo, hfield, hkey, hasked, hinfo, hreqs>>
    /\ UNCHANGED notHandler

\* lines 470-472 and 558-567: the empty placeholder ends the loop and
\* query_simple is called with the values
QuerySimpleItemsSend ==
    /\ hfn = "query_simple_items" /\ hpc = "values"
    /\ hreqs' = Append(hreqs, [op |-> "query_simple", table_name |-> Name(htable),
                               expression_attribute_values |-> Some(hitem)])
    /\ hpc' = "await"
    /\ UNCHANGED <<hfn, htable, htodo, hfield, hitem, hkey, hasked, htype, hinfo,
                   hresult>>
    /\ UNCHANGED notHandler

\* prompt(..)? -- a prompt fails with an I/O error, which the handler returns
PromptReturnsErr(e) ==
    /\ \/ hfn = "update_item" /\ hpc \in {"start", "key"}
          /\ DOMAIN hkey # KeyFields(htable)
       \/ hfn = "update_item" /\ hpc = "fields"
          /\ htodo \ KeyFields(htable) # {}
       \/ hfn = "update_item" /\ hpc = "value"
       \/ hfn = "query_simple_items" /\ hpc \in {"start", "filter", "values"}
    /\ hresult' = Err(e) /\ hpc' = "done"
    /\ UNCHANGED <<hfn, htable, htodo, hfield, hitem, hkey, hasked, htype, hinfo,
                   hreqs>>
    /\ UNCHANGED notHandler

\* prompt(..).unwrap() -- put_item line 135, query_simple_items lines 543
\* and 548: a prompt fails with an I/O error and the handler unwinds
PromptPanics(e) ==
    /\ \/ hfn = "put_item" /\ hpc = "fold" /\ htodo # {}
       \/ hfn = "query_simple_items" /\ hpc = "sort"
    /\ hpc' = "panic"
    /\ UNCHANGED <<hfn, htable, htodo, hfield, hitem, hkey, hasked, htype, hinfo,
                   hreqs, hresult>>
    /\ UNCHANGED notHandler

\* .await? on the last call of put_item, update_item and query_simple_items
\* succeeded: the handler returns Ok(())
StoreAnswers ==
    /\ hpc = "await"
    /\ hresult' = Ok("()") /\ hpc' = "done"
    /\ UNCHANGED <<hfn, htable, htodo, hfield, hitem, hkey, hasked, htype, hinfo,
                   hreqs>>
    /\ UNCHANGED notHandler

\* .await? -- a call on the store client failed: the handler returns the error
StoreFails(e) ==
    /\ hpc \in {"await", "await_describe", "await_scan"}
    /\ hresult' = Err(e) /\ hpc' = "done"
    /\ UNCHANGED <<hfn, htable, htodo, hfield, hitem, hkey, hasked, htype, hinfo,
                   hreqs>>
    /\ UNCHANGED notHandler

InitHandler ==
    /\ hfn \in {"put_item", "update_item", "print_info", "query_simple_items"}
    /\ htable \in HandlerTables
    /\ hpc = "start" /\ htodo = {} /\ hfield = None
    /\ hitem = ItemNew /\ hkey = ItemNew /\ hasked = <<>>
    /\ htype = None /\ hinfo = None /\ hreqs = <<>> /\ hresult = NoResult
    /\ table = <<>>
    /\ RetryIdle /\ ScanIdle /\ QueryIdle /\ TableIdle /\ CrudIdle /\ ItemIdle
    /\ CliIdle

NextHandler ==
    \/ PutItemStart
    \/ \E f \in DOMAIN ProductSchema, line \in ValueLines : PutItemField(f, line)
    \/ PutItemSend
    \/ \E line \in ValueLines : CreateKeyItemPrompt(line)
    \/ CreateUpdateItemStart
    \/ \E f \in DOMAIN ProductSchema : CreateUpdateItemSkipKey(f)
    \/ \E f \in DOMAIN ProductSchema, a \in Answers : CreateUpdateItemAsk(f, a)
    \/ \E line \in ValueLines : CreateUpdateItemValue(line)
    \/ UpdateItemSend
    \/ PrintInfoDescribe
    \/ \E d \in {None, Some("ACTIVE")} : PrintInfoDescribed(d)
    \/ PrintInfoScanned
    \/ \E line \in ValueLines : QuerySimpleItemsKeyPrompt(line)
    \/ \E line \in ValueLines : QuerySimpleItemsSortPrompts(line)
    \/ QuerySimpleItemsFilterLimit
    \/ \E ph \in ValuePlaceholderLines, ty \in ValueTypeLines, line \in ValueLines :
          GetExpressionAttributeValuesEntry(ph, ty, line)
    \/ QuerySimpleItemsSend
    \/ \E e \in Errors : PromptReturnsErr(e)
    \/ \E e \in Errors : PromptPanics(e)
    \/ StoreAnswers
    \/ \E e \in Errors : StoreFails(e)

SpecHandler == InitHandler /\ [][NextHandler]_vars

(***************************************************************************)
(* Properties of the command handlers.                                     *)
(***************************************************************************)
\* C21: no failure a command meets unwinds the handler: a store error, a
\* missing table description, a failing prompt and a Number that does not
\* parse in put_item are each returned as an error value.
C21_NoPanic == hpc # "panic"

\* C22: put_item and update_item on a table without schema make no call on
\* the store and return 'Table schema not defined' (update_item unless a key
\* prompt failed before); a value type other than S and N ends
\* get_expression_attribute_values with 'Unsupported value type' before the
\* command makes a call on the store; after either error nothing more is sent.
C22_LocalPrecondition ==
    /\ (hfn \in {"put_item", "update_item"} /\ TableSchema(htable) = None) =>
        /\ hreqs = <<>>
        /\ hpc \in {"start", "key", "done"}
        /\ hpc = "done" =>
            \/ hresult = Err(SchemaNotDefined)
            \/ hfn = "update_item" /\ DOMAIN hkey # KeyFields(htable)
               /\ ~hresult.ok /\ hresult.val \in Errors
    /\ (htype # None /\ htype[1] \notin {"S", "N"}) =>
        /\ hpc = "done" /\ hresult = Err(UnsupportedValueType)
        /\ hreqs = <<>>
    /\ (~hresult.ok /\ hresult.val \in {SchemaNotDefined, UnsupportedValueType}) =>
        /\ hpc = "done" /\ hreqs = <<>>

C22_Witness ==
    /\ hfn = "update_item" /\ TableSchema(htable) = None
    /\ hpc = "done" /\ hresult = Err(SchemaNotDefined)
    /\ DOMAIN hkey = {PartitionKeyName, SortKeyName} /\ hreqs = <<>>

\* The fields create_update_item was told to update.
AnsweredYes ==
    { hasked[i].field : i \in { j \in 1..Len(hasked) : ToLowercase(hasked[j].answer) = "y" } }

\* C29: create_update_item never prompts for a key field; the updates it
\* returns hold neither the partition key nor the sort key and exactly the
\* other schema fields answered y, each of which was asked once.
C29_UpdatesSkipKeys ==
    hfn = "update_item" =>
        /\ \A i \in 1..Len(hasked) :
            /\ hasked[i].field \notin KeyFields(htable)
            /\ hasked[i].field \in DOMAIN Fields(TableSchema(htable)[1])
            /\ \A j \in 1..Len(hasked) : hasked[j].field = hasked[i].field => i = j
        /\ \A i \in 1..Len(hreqs) :
            /\ PartitionKey(htable) \notin DOMAIN hreqs[i].updates
            /\ SortKey(htable) # None => SortKey(htable)[1] \notin DOMAIN hreqs[i].updates
            /\ DOMAIN hreqs[i].updates = AnsweredYes
            /\ { hasked[j].field : j \in 1..Len(hasked) } =
                    DOMAIN Fields(TableSchema(htable)[1]) \ KeyFields(htable)

C29_Witness ==
    /\ hfn = "update_item" /\ hpc = "done" /\ hresult.ok
    /\ SortKey(htable) = None
    /\ Len(hasked) = 3 /\ AnsweredYes = {PriceAttribute, SortKeyName}
    /\ DOMAIN hreqs[1].updates = {PriceAttribute, SortKeyName}
    /\ \E i \in 1..3 : hasked[i].answer = "Y"

====
